---------------------------- MODULE Spec2Model ----------------------------
(***************************************************************************)
(* The shuttle control plane of the WMS-shuttle gateway: the per-shuttle   *)
(* command scheduler (ShuttleManager), the outbound client                 *)
(* (ShuttleClient), the connection registry (ConnectionManager), the       *)
(* inbound listener (ShuttleListener) and the health monitor               *)
(* (ShuttleMonitor).                                                       *)
(*                                                                         *)
(* The program runs on one asyncio event loop: the code between two        *)
(* suspension points (await of a lock that is taken, of a dial, of a       *)
(* drain, of a full queue) runs atomically, so every action below is one   *)
(* such stretch of one fiber.                                              *)
(***************************************************************************)
EXTENDS Integers, Sequences, FiniteSets, TLC

(***************************************************************************)
(* Bounds of the model.                                                    *)
(***************************************************************************)
MaxSubmits == 4     \* calls of ShuttleManager.send_command
LinkSubmits == 2    \* of them in the runs of the link layer
RaceSubmits == 3    \* of them in the runs of the scheduler
HomeSubmits == 4    \* of them in the runs of HOME against the queue
StopSubmits == 3    \* of them in the runs of a shutdown
HomeFaults == 2     \* transport failures in those runs
MaxClock == 1       \* the millisecond clock runs over 0..MaxClock
MaxChecks == 1      \* runs of ShuttleMonitor._check_shuttle
MaxFaults == 1      \* transport failures (failed dial, failed drain)
MaxInbound == 2     \* connections accepted by the listener
MaxCancels == 1     \* calls of ShuttleManager.cancel_command
QueueMax == 2       \* config.command_queue_max_size of the model
BatchQueueMax == 3  \* the queue size in the runs of a batch
MaxConfig == 2      \* the most shuttles in a configuration of the resolver
MaxExecutes == 6    \* calls of CircuitBreaker.execute
BreakerClock == 4   \* the clock of the breaker runs over 1..BreakerClock
reset_timeout == 2  \* the breaker's reset_timeout in ticks of that clock
MaxPayload == 3     \* the longest payload tried after BATTERY=, WDH=, WLH=

(***************************************************************************)
(* Program constants.                                                      *)
(***************************************************************************)
command_processor_workers == 2
max_failures == 3
FastPathPriority == 4

Shuttles == {"s1"}
UnknownIds == {"temp_shuttle_10_0_0_9"}
ListenerIds == Shuttles \cup UnknownIds

Submitters == 1..MaxSubmits
Workers == {100 + i : i \in 1..command_processor_workers}
Canceller == 200
Monitor == 300
Stopper == 400
Tasks == Submitters \cup Workers \cup {Canceller, Monitor, Stopper}

NoLink == 0
NoCmd == [type |-> "NONE", shuttle_id |-> "", priority |-> 0, ms |-> 0, sub |-> 0]

(***************************************************************************)
(* commands.py                                                             *)
(***************************************************************************)
CommandPriority(type) ==
    CASE type = "HOME" -> 1
      [] type = "STATUS" -> 2
      [] type = "BATTERY" -> 3
      [] type = "MRCD" -> 4
      [] type = "PALLET_OUT" -> 5
      [] type = "PALLET_IN" -> 6
      [] type = "STACK_OUT" -> 7
      [] type = "STACK_IN" -> 8
      [] type = "FIFO" -> 9
      [] type = "FILO" -> 10
      [] type = "COUNT" -> 11
      [] type = "WDH" -> 12
      [] type = "WLH" -> 13
      [] OTHER -> 10

\* The command types a caller submits in the model.
SubmitTypes == {"HOME", "MRCD", "PALLET_OUT", "PALLET_IN"}

\* ShuttleCommand(command_type, shuttle_id): the priority is the default of
\* the type.  ms is the clock at submission, sub the caller (the identity of
\* the Python object).
ShuttleCommand(type, s, ms, sub) ==
    [type |-> type, shuttle_id |-> s, priority |-> CommandPriority(type),
     ms |-> ms, sub |-> sub]

\* The arguments the callers give ShuttleCommand besides the type and the
\* shuttle: every command of a type carries the same params and the same WMS
\* context; "" is an argument left out (None).
Params(type) == IF type = "PALLET_IN" THEN "A1" ELSE ""
ExternalId(type) ==
    CASE type = "PALLET_IN" -> "ext_in" [] type = "PALLET_OUT" -> "ext_out"
      [] type = "HOME" -> "ext_home" [] OTHER -> ""
DocumentType(type) ==
    CASE type = "PALLET_IN" -> "shipment" [] type = "PALLET_OUT" -> "transfer"
      [] type = "HOME" -> "transfer" [] OTHER -> ""
CellId(type) == IF type \in {"PALLET_IN", "PALLET_OUT"} THEN "A1" ELSE ""
StockName(type) == IF ExternalId(type) # "" THEN "A" ELSE ""

\* a to_string that leaves the params out
to_string_bare(type) == <<type, "\n">>

\* ShuttleCommand.to_string of a command that is not FIFO or FILO: the line
\* as its pieces, the line feed included
to_string(type) ==
    IF Params(type) # "" THEN <<type, "-", Params(type), "\n">>
    ELSE <<type, "\n">>

\* command_id = f"{shuttle_id}_{command_type}_{int(time.time()*1000)}"
CommandId(c) == <<c.shuttle_id, c.type, c.ms>>

CommandIds == {<<s, t, m>> : s \in Shuttles, t \in SubmitTypes, m \in 0..MaxClock}

\* The order of the type names as Python strings.
TypeRank(type) ==
    CASE type = "BATTERY" -> 1
      [] type = "COUNT" -> 2
      [] type = "FIFO" -> 3
      [] type = "FILO" -> 4
      [] type = "HOME" -> 5
      [] type = "MRCD" -> 6
      [] type = "PALLET_IN" -> 7
      [] type = "PALLET_OUT" -> 8
      [] type = "STACK_IN" -> 9
      [] type = "STACK_OUT" -> 10
      [] type = "STATUS" -> 11
      [] type = "WDH" -> 12
      [] OTHER -> 13

\* command_id strings of one shuttle compared as Python compares str: by the
\* type name, then by the timestamp digits (timestamps have the same number
\* of digits, so the digit strings order as the numbers).
CommandIdLess(a, b) ==
    \/ TypeRank(a.type) < TypeRank(b.type)
    \/ a.type = b.type /\ a.ms < b.ms

\* ShuttleCommand.__lt__
CommandLt(a, b) == a.priority < b.priority

\* The queue holds tuples (priority, command_id, command); Python compares
\* them component by component.
EntryLess(a, b) ==
    \/ a.priority < b.priority
    \/ a.priority = b.priority /\ CommandIdLess(a, b)
    \/ a.priority = b.priority /\ CommandId(a) = CommandId(b) /\ CommandLt(a, b)

(***************************************************************************)
(* asyncio.PriorityQueue: a binary heap in a list (heapq), 1-based here.   *)
(***************************************************************************)
RECURSIVE SiftDown(_, _, _)
SiftDown(h, pos, item) ==
    IF pos > 1 /\ EntryLess(item, h[pos \div 2])
    THEN SiftDown([h EXCEPT ![pos] = h[pos \div 2]], pos \div 2, item)
    ELSE [h EXCEPT ![pos] = item]

RECURSIVE SiftUp(_, _, _)
SiftUp(h, pos, item) ==
    LET child == 2 * pos
        right == child + 1
        c == IF right <= Len(h) /\ ~EntryLess(h[child], h[right])
             THEN right ELSE child
    IN IF child <= Len(h)
       THEN SiftUp([h EXCEPT ![pos] = h[c]], c, item)
       ELSE SiftDown(h, pos, item)

HeapPush(h, e) == SiftDown(Append(h, e), Len(h) + 1, e)

HeapPopRest(h) ==
    IF Len(h) = 1 THEN <<>>
    ELSE SiftUp(SubSeq(h, 1, Len(h) - 1), 1, h[Len(h)])

\* The list of the entries in the order successive get() calls return them.
RECURSIVE Drain(_)
Drain(h) == IF h = <<>> THEN <<>> ELSE <<h[1]>> \o Drain(HeapPopRest(h))

RECURSIVE PushAll(_, _)
PushAll(h, es) == IF es = <<>> THEN h ELSE PushAll(HeapPush(h, Head(es)), Tail(es))

SelectSeqNot(es, id) == SelectSeq(es, LAMBDA e : CommandId(e) # id)


(***************************************************************************)
(* State.                                                                  *)
(***************************************************************************)
VARIABLES
    now,        \* int(time.time()*1000), the clock of command IDs
    qmax,       \* config.command_queue_max_size
    queue,      \* ShuttleManager.command_queues: the heap of each shuttle
    putters,    \* the callers suspended in put() of each full queue
    lock,       \* ShuttleManager.command_locks: [locked, waiters]
    registry,   \* ShuttleManager.command_registry, by command ID
    pc,         \* where each fiber is suspended
    tcmd,       \* the command each fiber carries
    monPhase,   \* ShuttleMonitor._check_shuttle: "idle", "connect", "send"
    client,     \* ShuttleClient.connected and .writer, per client
    state,      \* ShuttleClient.state of the manager's clients
    cm,         \* ConnectionManager.connections and .connecting
    cmlock,     \* ConnectionManager.lock: [locked, waiters]
    openLinks,  \* the dialled links that are not closed
    nlinks,     \* the number of links dialled so far
    wire,       \* per shuttle, the callers' commands in the order of their
                \* writer.write calls
    gate,       \* per shuttle, the status was FREE since the last dispatch
                \* by a worker returned
    handlers,   \* ShuttleListener.message_handlers
    lconn,      \* ShuttleListener.connections
    inb,        \* the connections the listener accepted
    lastIn,     \* the last line the listener read and what was sent back
    cancelAt,   \* per caller, Len(wire) when cancel_command returned True
    snap,       \* per HOME caller that found the shuttle BUSY, the commands
                \* queued when it was submitted
    batch,      \* per shuttle: "open", "popped" after a worker's pop,
                \* "mixed" once a command was enqueued after a pop
    nfaults,    \* transport failures so far
    nchecks,    \* health checks so far
    ncancels,   \* cancel_command calls so far
    cb,         \* a CircuitBreaker, its callers and the clock they read
    nstatus,    \* STATUS lines written on each shuttle's link (the requests
                \* of connect and of the monitor), which wire leaves out
    stopPhase   \* ShuttleManager.stop: "idle" while self.running, "gather"
                \* with the workers cancelled, "done" when it has returned

vars == <<now, qmax, queue, putters, lock, registry, pc, tcmd, monPhase,
          client, state, cm, cmlock, openLinks, nlinks, wire, gate, handlers,
          lconn, inb, lastIn, cancelAt, snap, batch, nfaults, nchecks,
          ncancels, nstatus, stopPhase, cb>>

\* The state as one record: the stretches of code below are functions from
\* such a record to the record after them.
W == [now |-> now, qmax |-> qmax, queue |-> queue, putters |-> putters,
      lock |-> lock, registry |-> registry, pc |-> pc, tcmd |-> tcmd,
      monPhase |-> monPhase, client |-> client, state |-> state, cm |-> cm,
      cmlock |-> cmlock, openLinks |-> openLinks, nlinks |-> nlinks,
      wire |-> wire, gate |-> gate, handlers |-> handlers, lconn |-> lconn, inb |-> inb,
      lastIn |-> lastIn, cancelAt |-> cancelAt, snap |-> snap,
      batch |-> batch, nfaults |-> nfaults, nchecks |-> nchecks,
      ncancels |-> ncancels, nstatus |-> nstatus, stopPhase |-> stopPhase,
      cb |-> cb]

SetW(w) ==
    /\ now' = w.now /\ qmax' = w.qmax /\ queue' = w.queue
    /\ putters' = w.putters /\ lock' = w.lock /\ registry' = w.registry
    /\ pc' = w.pc /\ tcmd' = w.tcmd /\ monPhase' = w.monPhase
    /\ client' = w.client /\ state' = w.state /\ cm' = w.cm
    /\ cmlock' = w.cmlock /\ openLinks' = w.openLinks /\ nlinks' = w.nlinks
    /\ wire' = w.wire /\ gate' = w.gate /\ handlers' = w.handlers /\ lconn' = w.lconn
    /\ inb' = w.inb /\ lastIn' = w.lastIn /\ cancelAt' = w.cancelAt
    /\ snap' = w.snap /\ batch' = w.batch /\ nfaults' = w.nfaults
    /\ nchecks' = w.nchecks /\ ncancels' = w.ncancels
    /\ stopPhase' = w.stopPhase /\ nstatus' = w.nstatus /\ cb' = w.cb

ClientIds == Shuttles \cup {"monitor"}

NoRecord == [status |-> "none", error |-> "", command |-> NoCmd]

\* ShuttleState(shuttle_id=shuttle_id)
InitialState ==
    [status |-> "UNKNOWN", current_command |-> "NONE", error_code |-> <<>>,
     last_command |-> "NONE", current_cell |-> <<>>,
     external_id |-> "", document_type |-> "", cell_id |-> "",
     stock_name |-> "", battery_level |-> <<>>, location_data |-> <<>>,
     pallet_count_data |-> <<>>, wdh_hours |-> <<>>, wlh_hours |-> <<>>]

NoLine == <<>>

(***************************************************************************)
(* utils/circuit_breaker.py.  calls[c] is where caller c of execute is:    *)
(* "running" inside the wrapped function, else how its last call ended     *)
(* ("ok", "error", "open" for CircuitOpenError, "none" before the first).  *)
(* invoked counts the calls of the wrapped function, nexec those of        *)
(* execute, clock is time.time().                                          *)
(***************************************************************************)
Callers == {1, 2}

\* CircuitBreaker.__init__
NewBreaker ==
    [state |-> "CLOSED", failures |-> 0, last_failure_time |-> 0,
     calls |-> [c \in Callers |-> "none"], invoked |-> 0, nexec |-> 0,
     clock |-> 1]

\* CircuitBreaker.reset
Reset(b) == [b EXCEPT !.failures = 0, !.state = "CLOSED"]

\* execute, lines 58-70: the check of the circuit, then the call
Enter(b, c) ==
    LET n == [b EXCEPT !.nexec = @ + 1]
        run == [n EXCEPT !.calls[c] = "running", !.invoked = @ + 1]
    IN IF b.state = "OPEN"
       THEN IF b.clock - b.last_failure_time >= reset_timeout
            THEN [run EXCEPT !.state = "HALF_OPEN"]
            ELSE [n EXCEPT !.calls[c] = "open"]
       ELSE run

\* a success that leaves a half-open circuit as it is
OnSuccessKeep(b, c) == [b EXCEPT !.calls[c] = "ok"]

\* execute, lines 72-77: the function returned
OnSuccess(b, c) ==
    LET r == [b EXCEPT !.calls[c] = "ok"]
    IN IF b.state = "HALF_OPEN" THEN Reset(r) ELSE r

\* a breaker that opens one failure late
OnFailureLate(b, c) ==
    LET r == [b EXCEPT !.calls[c] = "error", !.failures = @ + 1,
                       !.last_failure_time = b.clock]
    IN IF r.state = "CLOSED" /\ r.failures > max_failures
       THEN [r EXCEPT !.state = "OPEN"]
       ELSE IF r.state = "HALF_OPEN" THEN [r EXCEPT !.state = "OPEN"]
       ELSE r

\* execute, lines 78-94: the function raised
OnFailure(b, c) ==
    LET r == [b EXCEPT !.calls[c] = "error", !.failures = @ + 1,
                       !.last_failure_time = b.clock]
    IN IF r.state = "CLOSED" /\ r.failures >= max_failures
       THEN [r EXCEPT !.state = "OPEN"]
       ELSE IF r.state = "HALF_OPEN" THEN [r EXCEPT !.state = "OPEN"]
       ELSE r

InitWith(size) ==
    /\ now = 0
    /\ qmax = size
    /\ queue = [s \in Shuttles |-> <<>>]
    /\ putters = [s \in Shuttles |-> <<>>]
    /\ lock = [s \in Shuttles |-> [locked |-> FALSE, waiters |-> <<>>]]
    /\ registry = [id \in CommandIds |-> NoRecord]
    /\ pc = [t \in Tasks |-> "idle"]
    /\ tcmd = [t \in Tasks |-> NoCmd]
    /\ monPhase = "idle"
    /\ client = [k \in ClientIds |-> [connected |-> FALSE, writer |-> NoLink]]
    /\ state = [s \in Shuttles |-> InitialState]
    /\ cm = [conn |-> [s \in Shuttles |-> NoLink], connecting |-> {}]
    /\ cmlock = [locked |-> FALSE, waiters |-> <<>>]
    /\ openLinks = {}
    /\ nlinks = 0
    /\ wire = [s \in Shuttles |-> <<>>]
    /\ gate = [s \in Shuttles |-> TRUE]
    /\ handlers = [id \in ListenerIds |-> "none"]
    /\ lconn = [id \in ListenerIds |-> 0]
    /\ inb = [c \in 1..MaxInbound |-> [id |-> "", st |-> "unused"]]
    /\ lastIn = [line |-> NoLine, handler |-> "none", acks |-> 0]
    /\ cancelAt = [i \in Submitters |-> -1]
    /\ snap = [i \in Submitters |-> {}]
    /\ batch = [s \in Shuttles |-> "open"]
    /\ nfaults = 0
    /\ nchecks = 0
    /\ ncancels = 0
    /\ stopPhase = "idle"
    /\ nstatus = [s \in Shuttles |-> 0]
    /\ cb = NewBreaker

Init == InitWith(QueueMax)

(***************************************************************************)
(* asyncio.Lock.  release() clears the flag and wakes the first waiter; the *)
(* waiter sets the flag again only when it runs.  acquire() takes the lock  *)
(* at once only when the flag is clear and nobody waits.                    *)
(***************************************************************************)
LockFree(l) == ~l.locked /\ l.waiters = <<>>
LockTake(l) == [l EXCEPT !.locked = TRUE]
\* a lock that serves the latest waiter first
LockEnqueueFront(l, t) == [l EXCEPT !.waiters = <<t>> \o @]
LockEnqueue(l, t) == [l EXCEPT !.waiters = Append(@, t)]
LockWoken(l, t) == ~l.locked /\ l.waiters # <<>> /\ Head(l.waiters) = t
LockGrant(l) == [locked |-> TRUE, waiters |-> Tail(l.waiters)]
LockRelease(l) == [l EXCEPT !.locked = FALSE]


(***************************************************************************)
(* Helpers on the state record.                                            *)
(***************************************************************************)
\* The shuttle a fiber works on and the client it uses: the manager's client
\* of that shuttle, or the client the monitor built for its check.
ShuttleOf(w, t) == w.tcmd[t].shuttle_id
ClientOf(w, t) == IF t = Monitor THEN "monitor" ELSE ShuttleOf(w, t)
HandlerOf(t) == IF t = Monitor THEN "mon" ELSE "mgr"

\* self.state.status = ...; self.state.error_code = ...  The state of the
\* monitor's client is dropped with the client and read by nobody.
SetError(w, t, code) ==
    IF t = Monitor THEN w
    ELSE [w EXCEPT !.state[ShuttleOf(w, t)].status = "ERROR",
                   !.state[ShuttleOf(w, t)].error_code = <<code>>]

\* a send_command that also records the command as current_command
SetSentCurrent(w, t, type) ==
    IF t = Monitor THEN w
    ELSE [w EXCEPT !.state[ShuttleOf(w, t)].last_command = type,
                   !.state[ShuttleOf(w, t)].current_command = type,
                   !.state[ShuttleOf(w, t)].status =
                        IF type # "MRCD" THEN "BUSY" ELSE @]

\* shuttle_client.py:109-115
SetSent(w, t, type) ==
    IF t = Monitor THEN w
    ELSE [w EXCEPT !.state[ShuttleOf(w, t)].last_command = type,
                   !.state[ShuttleOf(w, t)].status =
                        IF type # "MRCD" THEN "BUSY" ELSE @]

\* self.writer.write(command_str.encode('utf-8'))
WriteLine(w, t, type, sub) ==
    IF sub = 0
    THEN [w EXCEPT !.nstatus[ShuttleOf(w, t)] = @ + 1]
    ELSE [w EXCEPT !.wire[ShuttleOf(w, t)] =
             Append(@, [sub |-> sub, by |-> t, line |-> to_string(type),
                        gate |-> w.gate[ShuttleOf(w, t)]])]

(***************************************************************************)
(* ShuttleManager: what follows the return of ShuttleClient.send_command.  *)
(***************************************************************************)
RegistryDone(w, c, ok) ==
    [status |-> IF ok THEN "completed" ELSE "failed",
     error |-> IF ok THEN "" ELSE "Failed to process command",
     command |-> c]

\* a fast path that records every command as completed
FastPathReturnCompleted(w, t, ok) ==
    [w EXCEPT !.registry[CommandId(w.tcmd[t])] =
                  RegistryDone(w, w.tcmd[t], TRUE),
              !.lock[w.tcmd[t].shuttle_id] = LockRelease(@),
              !.pc[t] = "done"]

\* shuttle_manager.py:90-112 and 117-139: the fast path records the command
\* and leaves the lock.
FastPathReturn(w, t, ok) ==
    LET c == w.tcmd[t]
        s == c.shuttle_id
    IN [w EXCEPT !.registry[CommandId(c)] = RegistryDone(w, c, ok),
                 !.lock[s] = LockRelease(@),
                 !.pc[t] = "done"]

\* shuttle_manager.py:324-332: the worker marks the record and leaves the
\* lock.
WorkerReturn(w, t, ok) ==
    LET c == w.tcmd[t]
        s == c.shuttle_id
        id == CommandId(c)
    IN [w EXCEPT !.registry[id].status =
                     IF w.registry[id].status = "none" THEN @
                     ELSE IF ok THEN "completed" ELSE "failed",
                 !.lock[s] = LockRelease(@),
                 !.gate[s] = FALSE,
                 !.pc[t] = "idle",
                 !.tcmd[t] = NoCmd]


(***************************************************************************)
(* ShuttleClient and ConnectionManager: the stretches of send_command,     *)
(* connect, get_connection, disconnect and close_connection between their  *)
(* suspension points.  A stretch ends where the fiber suspends (it sets    *)
(* pc) or where the call returns into its caller's stretch.                *)
(***************************************************************************)
RECURSIVE SendReturn(_, _, _)
RECURSIVE ConnectReturn(_, _, _)

\* shuttle_monitor.py:113: the check is over, its client is dropped.
MonitorDone(w) ==
    [w EXCEPT !.pc[Monitor] = "idle", !.monPhase = "idle",
              !.tcmd[Monitor] = NoCmd,
              !.client["monitor"] = [connected |-> FALSE, writer |-> NoLink]]

\* ConnectionManager.close_connection under its lock, then
\* shuttle_client.py:90-92.  writer.wait_closed() is folded into the step:
\* the registry lock is held across it.
CloseConnection(w, t) ==
    LET s == ShuttleOf(w, t)
    IN [w EXCEPT !.openLinks = @ \ {w.cm.conn[s]},
                 !.cm.conn[s] = NoLink,
                 !.client[ClientOf(w, t)] =
                     [connected |-> FALSE, writer |-> NoLink]]

\* shuttle_manager.py:64-67: the shuttles are disconnected, stop returns.
StopDone(w) ==
    [w EXCEPT !.stopPhase = "done", !.pc[Stopper] = "idle",
              !.tcmd[Stopper] = NoCmd]

\* What follows ShuttleClient.disconnect: "st" in the connect-time STATUS
\* request, "w" in send_command's handler of a failed write, "m" at the end
\* of the monitor's check, "s" in ShuttleManager.stop.
AfterDisconnect(w, t, ctx) ==
    CASE ctx = "st" -> ConnectReturn(w, t, TRUE)
      [] ctx = "w" -> SendReturn(w, t, FALSE)
      [] ctx = "s" -> StopDone(w)
      [] OTHER -> MonitorDone(w)

ClosePc(ctx) ==
    CASE ctx = "st" -> "close_st" [] ctx = "w" -> "close_w"
      [] ctx = "s" -> "close_s" [] OTHER -> "close_m"

\* ShuttleClient.disconnect
Disconnect(w, t, ctx) ==
    IF ~w.client[ClientOf(w, t)].connected
    THEN AfterDisconnect(w, t, ctx)
    ELSE LET u == [w EXCEPT !.handlers[ShuttleOf(w, t)] = "none"]
         IN IF LockFree(u.cmlock)
            THEN AfterDisconnect(CloseConnection(u, t), t, ctx)
            ELSE [u EXCEPT !.cmlock = LockEnqueue(@, t),
                           !.pc[t] = ClosePc(ctx)]

\* shuttle_client.py:101-105: the write of send_command.  With writer None
\* (the connect-time request closed the client) the write raises and the
\* handler of line 123 runs.
WriteCmd(w, t) ==
    IF w.client[ClientOf(w, t)].writer = NoLink
    THEN SendReturn(SetError(w, t, "SEND_ERROR"), t, FALSE)
    ELSE [WriteLine(w, t, w.tcmd[t].type, w.tcmd[t].sub)
            EXCEPT !.pc[t] = "drain"]

\* a _process_command that leaves the state as send_command left it
ProcessCommandNoStamp(w, t, ok) == w

\* shuttle_manager.py:359-366: _process_command stamps the state with the
\* WMS context of the command it sent.
ProcessCommand(w, t, ok) ==
    IF ~ok THEN w
    ELSE LET s == ShuttleOf(w, t)
             type == w.tcmd[t].type
         IN [w EXCEPT !.state[s].external_id = ExternalId(type),
                      !.state[s].document_type = DocumentType(type),
                      !.state[s].cell_id = CellId(type),
                      !.state[s].stock_name = StockName(type)]

\* The caller of ShuttleClient.send_command goes on.
SendReturn(w, t, ok) ==
    IF t \in Submitters THEN FastPathReturn(ProcessCommand(w, t, ok), t, ok)
    ELSE IF t \in Workers THEN WorkerReturn(ProcessCommand(w, t, ok), t, ok)
    ELSE Disconnect(w, t, "m")

\* a connect that writes no STATUS request
ConnectedQuiet(w, t, l) ==
    [w EXCEPT !.client[ClientOf(w, t)] = [connected |-> TRUE, writer |-> l],
              !.handlers[ShuttleOf(w, t)] = HandlerOf(t),
              !.pc[t] = "st_drain"]

\* shuttle_client.py:48-56: connected, the handler registered, the STATUS
\* request written.
Connected(w, t, l) ==
    LET u == [w EXCEPT !.client[ClientOf(w, t)] =
                           [connected |-> TRUE, writer |-> l],
                       !.handlers[ShuttleOf(w, t)] = HandlerOf(t)]
    IN [WriteLine(u, t, "STATUS", 0) EXCEPT !.pc[t] = "st_drain"]

\* ConnectionManager.get_connection with its lock held.  The wait on
\* self.connecting (lines 31-38) cannot run: the set is filled and emptied
\* under the lock.
GetConnection(w, t) ==
    LET s == ShuttleOf(w, t)
    IN IF w.cm.conn[s] # NoLink
       THEN Connected([w EXCEPT !.cmlock = LockRelease(@)], t, w.cm.conn[s])
       ELSE [w EXCEPT !.cm.connecting = @ \cup {s}, !.pc[t] = "dialing"]

\* get_connection entered without ConnectionManager.lock
ConnectUnlocked(w, t) == GetConnection(w, t)

\* ShuttleClient.connect up to the registry lock.
Connect(w, t) ==
    IF LockFree(w.cmlock)
    THEN GetConnection([w EXCEPT !.cmlock = LockTake(@)], t)
    ELSE [w EXCEPT !.cmlock = LockEnqueue(@, t), !.pc[t] = "cm_wait"]

\* ShuttleClient.send_command
SendCommand(w, t) ==
    IF w.client[ClientOf(w, t)].connected THEN WriteCmd(w, t)
    ELSE Connect(w, t)

\* ShuttleClient.connect returns: into send_command (line 97), or into the
\* monitor's check (shuttle_monitor.py:95-113).
ConnectReturn(w, t, ok) ==
    IF t # Monitor \/ w.monPhase = "send"
    THEN IF ok THEN WriteCmd(w, t) ELSE SendReturn(w, t, FALSE)
    ELSE IF ok THEN SendCommand([w EXCEPT !.monPhase = "send"], t)
         ELSE Disconnect(w, t, "m")


(***************************************************************************)
(* ShuttleManager: the queue, the fast path, the workers, cancellation.    *)
(***************************************************************************)
Min(a, b) == IF a < b THEN a ELSE b

\* asyncio.Queue.full()
Full(w, s) == Len(w.queue[s]) >= w.qmax

\* asyncio.Queue._wakeup_next(self._putters), once per item taken
WakePutters(w, s, n) ==
    LET k == Min(n, Len(w.putters[s]))
    IN [w EXCEPT !.putters[s] = SubSeq(@, k + 1, Len(@)),
                 !.pc = [t \in Tasks |->
                            IF \E j \in 1..k : w.putters[s][j] = t
                            THEN "put_woken" ELSE @[t]]]

\* shuttle_manager.py:143-153: put() found room; the record is written.
Enqueue(w, t) ==
    LET c == w.tcmd[t]
        s == c.shuttle_id
    IN [w EXCEPT !.queue[s] = HeapPush(@, c),
                 !.registry[CommandId(c)] =
                     [status |-> "queued", error |-> "", command |-> c],
                 !.batch[s] = IF @ = "open" THEN @ ELSE "mixed",
                 !.pc[t] = "done"]

\* asyncio.Queue.put(): suspend while the queue is full.
Put(w, t) ==
    LET s == ShuttleOf(w, t)
    IN IF Full(w, s)
       THEN [w EXCEPT !.putters[s] = Append(@, t), !.pc[t] = "put_wait"]
       ELSE Enqueue(w, t)

\* async with self.command_locks[shuttle_id]: what t does once it is in.
RECURSIVE Locked(_, _)

\* asyncio.Lock.acquire()
Acquire(w, t) ==
    LET s == ShuttleOf(w, t)
    IN IF LockFree(w.lock[s])
       THEN Locked([w EXCEPT !.lock[s] = LockTake(@)], t)
       ELSE [w EXCEPT !.lock[s] = LockEnqueue(@, t), !.pc[t] = "lock_wait"]

\* cancel_command, lines 189-218, with the lock held
CancelBody(w) ==
    LET c == w.tcmd[Canceller]
        s == c.shuttle_id
        id == CommandId(c)
        kept == SelectSeqNot(Drain(w.queue[s]), id)
        temp_queue == PushAll(<<>>, kept)
        u == WakePutters(w, s, Len(w.queue[s]))
    IN [u EXCEPT !.queue[s] = PushAll(<<>>, Drain(temp_queue)),
                 !.registry[id].status = "cancelled",
                 !.lock[s] = LockRelease(@),
                 !.cancelAt[c.sub] = Len(w.wire[s]),
                 !.tcmd[Canceller] = NoCmd,
                 !.pc[Canceller] = "idle"]

Locked(w, t) == IF t = Canceller THEN CancelBody(w) ELSE SendCommand(w, t)

\* ShuttleManager.send_command.  The callers' commands carry the priority of
\* their type (CommandPriority); the ID is built from the clock on entry.
ManagerSendCommand(i, type, s) ==
    /\ pc[i] = "idle"
    /\ IF i = 1 THEN TRUE ELSE pc[i - 1] # "idle"
    /\ LET c == ShuttleCommand(type, s, now, i)
           w == [W EXCEPT !.tcmd[i] = c]
       IN IF type = "HOME" \/ c.priority <= FastPathPriority
          THEN SetW(Acquire(
                 [w EXCEPT !.snap[i] =
                     IF type = "HOME" /\ state[s].status = "BUSY"
                     THEN {queue[s][j].sub : j \in 1..Len(queue[s])}
                     ELSE {}], i))
          ELSE SetW(Put(w, i))

\* a caller suspended in put() was woken by a get
PutWoken(i) ==
    /\ pc[i] = "put_woken"
    /\ SetW(Put(W, i))

\* a fiber waiting for a shuttle's lock is given it
LockGranted(t) ==
    /\ pc[t] = "lock_wait"
    /\ LockWoken(lock[ShuttleOf(W, t)], t)
    /\ SetW(Locked([W EXCEPT !.lock[ShuttleOf(W, t)] = LockGrant(@)], t))

\* _command_processor_worker: one pass over a shuttle that has work
CommandProcessorWorker(wk, s) ==
    /\ stopPhase = "idle"
    /\ pc[wk] = "idle"
    /\ ~lock[s].locked
    /\ state[s].status = "FREE"
    /\ queue[s] # <<>>
    /\ LET c == queue[s][1]
           id == CommandId(c)
           w == WakePutters(
                    [W EXCEPT !.queue[s] = HeapPopRest(@),
                              !.batch[s] = IF @ = "open" THEN "popped" ELSE @],
                    s, 1)
       IN IF registry[id].status = "cancelled"
          THEN SetW(w)
          ELSE SetW(Acquire(
                 [w EXCEPT !.registry[id].status = "processing",
                           !.tcmd[wk] = c], wk))

\* a cancel_command that also takes the commands a worker is processing
CancellableOrProcessing(status) == status \in {"queued", "processing"}

\* shuttle_manager.py:175-185: the record exists and its status is "queued"
\* ("none" is the status of an ID that is not in the registry)
Cancellable(status) == status = "queued"

\* ShuttleManager.cancel_command(id) from its entry to its first suspension
\* point or its return
CancelCall(w, id) ==
    LET u == [w EXCEPT !.ncancels = @ + 1]
    IN IF ~Cancellable(w.registry[id].status)
       THEN u
       ELSE Acquire([u EXCEPT !.tcmd[Canceller] = w.registry[id].command],
                    Canceller)

\* ShuttleManager.cancel_command
CancelCommand(id) ==
    /\ pc[Canceller] = "idle"
    /\ ncancels < MaxCancels
    /\ SetW(CancelCall(W, id))

\* A lock without t among its waiters: the acquire() of a cancelled task.
LockLeave(l, t) == [l EXCEPT !.waiters = SelectSeq(@, LAMBDA x : x # t)]

\* a stop that leaves the workers running
NoCancel(w, wk) == w

\* task.cancel() of a worker: CancelledError is raised where the worker is
\* suspended and unwinds it to the handler of line 337.  No handler on the
\* way catches it (they catch Exception), "async with" gives the locks the
\* worker holds back and the finally of get_connection empties connecting;
\* the record of the command it carried stays "processing".
CancelWorker(w, wk) ==
    LET p == w.pc[wk]
        s == ShuttleOf(w, wk)
        u == [w EXCEPT !.pc[wk] = "idle", !.tcmd[wk] = NoCmd]
    IN CASE p = "idle" -> w
         [] p = "lock_wait" -> [u EXCEPT !.lock[s] = LockLeave(@, wk)]
         [] p = "cm_wait" ->
              [u EXCEPT !.cmlock = LockLeave(@, wk),
                        !.lock[s] = LockRelease(@)]
         [] p = "dialing" ->
              [u EXCEPT !.cm.connecting = @ \ {s},
                        !.cmlock = LockRelease(@),
                        !.lock[s] = LockRelease(@)]
         [] p \in {"close_st", "close_w"} ->
              [u EXCEPT !.cmlock = LockLeave(@, wk),
                        !.lock[s] = LockRelease(@)]
         [] OTHER -> [u EXCEPT !.lock[s] = LockRelease(@)]

RECURSIVE CancelWorkers(_, _)
CancelWorkers(w, wks) ==
    IF wks = {} THEN w
    ELSE LET wk == CHOOSE x \in wks : TRUE
         IN CancelWorkers(CancelWorker(w, wk), wks \ {wk})

\* ShuttleManager.stop, lines 50-60: running is cleared, every worker is
\* cancelled, stop awaits the gather.
Stop ==
    /\ stopPhase = "idle"
    /\ SetW([CancelWorkers(W, Workers) EXCEPT !.stopPhase = "gather"])

\* lines 60-67: the workers have ended, stop disconnects the shuttle's client
\* and returns.
StopGathered(s) ==
    /\ stopPhase = "gather"
    /\ pc[Stopper] = "idle"
    /\ \A wk \in Workers : pc[wk] = "idle"
    /\ SetW(Disconnect(
            [W EXCEPT !.tcmd[Stopper] = ShuttleCommand("NONE", s, 0, 0)],
            Stopper, "s"))

\* time.time() moves on by a millisecond
Tick ==
    /\ now < MaxClock
    /\ SetW([W EXCEPT !.now = @ + 1])


(***************************************************************************)
(* The transport: how a dial and a drain() end.  A failure of a live link  *)
(* is the environment's choice and is counted in nfaults; drain() on a     *)
(* link that was closed raises at once.                                    *)
(***************************************************************************)
Alive(t) == tcmd[t] # NoCmd /\ client[ClientOf(W, t)].writer \in openLinks
Fault(w) == [w EXCEPT !.nfaults = @ + 1]
\* what asyncio.wait_for(asyncio.open_connection(...)) raises
DialErrors == {"TimeoutError", "ConnectionRefusedError"}

\* connect with the handler of "except Exception" alone
ConnectErrorCodeGeneric(exc) == "CONNECTION_ERROR"

\* ShuttleClient.connect, lines 59-73: the error code of each handler
ConnectErrorCode(exc) ==
    CASE exc = "TimeoutError" -> "CONNECTION_TIMEOUT"
      [] exc = "ConnectionRefusedError" -> "CONNECTION_REFUSED"
      [] OTHER -> "CONNECTION_ERROR"

\* get_connection without its finally clause
DialFailedNoFinally(w, s) == [w EXCEPT !.cmlock = LockRelease(@)]

\* connection_manager.py:55-59: the dial raised; the finally clause and the
\* exit of "async with self.lock"
DialFailed(w, s) ==
    [w EXCEPT !.cm.connecting = @ \ {s}, !.cmlock = LockRelease(@)]

DrainErrors == {"SEND_TIMEOUT", "SEND_ERROR"}

\* connection_manager.py:41-54 and 59: open_connection returned a link
DialOk(t) ==
    /\ pc[t] = "dialing"
    /\ LET s == ShuttleOf(W, t)
           l == nlinks + 1
       IN SetW(Connected(
            [W EXCEPT !.nlinks = l, !.openLinks = @ \cup {l},
                      !.cm.conn[s] = l, !.cm.connecting = @ \ {s},
                      !.cmlock = LockRelease(@)], t, l))

\* connection_manager.py:55-59 and shuttle_client.py:62-73
DialFail(t, exc) ==
    /\ pc[t] = "dialing"
    /\ LET s == ShuttleOf(W, t)
       IN SetW(ConnectReturn(
            SetError(Fault(DialFailed(W, s)), t, ConnectErrorCode(exc)),
            t, FALSE))

\* a fiber waiting for the registry's lock is given it
CmLockGranted(t) ==
    /\ pc[t] = "cm_wait"
    /\ LockWoken(cmlock, t)
    /\ SetW(GetConnection([W EXCEPT !.cmlock = LockGrant(@)], t))

CloseCtx(p) ==
    CASE p = "close_st" -> "st" [] p = "close_w" -> "w"
      [] p = "close_s" -> "s" [] OTHER -> "m"

\* ShuttleClient.disconnect got the registry's lock
CloseGranted(t) ==
    /\ pc[t] \in {"close_st", "close_w", "close_m", "close_s"}
    /\ LockWoken(cmlock, t)
    /\ SetW(AfterDisconnect(
            CloseConnection(
               [W EXCEPT !.cmlock = LockRelease(LockGrant(@))], t),
            t, CloseCtx(pc[t])))

\* the connect-time STATUS request: shuttle_client.py:105-115, 333-349
StDrainOk(t) ==
    /\ pc[t] = "st_drain"
    /\ Alive(t)
    /\ SetW(ConnectReturn(SetSent(W, t, "STATUS"), t, TRUE))

\* shuttle_client.py:118-128 inside _request_shuttle_status
StDrainFail(t, code) ==
    /\ pc[t] = "st_drain"
    /\ Alive(t) \/ code = "SEND_ERROR"
    /\ LET w == SetError(IF Alive(t) THEN Fault(W) ELSE W, t, code)
       IN IF code = "SEND_TIMEOUT"
          THEN SetW(ConnectReturn(w, t, TRUE))
          ELSE SetW(Disconnect(w, t, "st"))

\* shuttle_client.py:105-116
DrainOk(t) ==
    /\ pc[t] = "drain"
    /\ Alive(t)
    /\ SetW(SendReturn(SetSent(W, t, tcmd[t].type), t, TRUE))

\* shuttle_client.py:118-128
DrainFail(t, code) ==
    /\ pc[t] = "drain"
    /\ Alive(t) \/ code = "SEND_ERROR"
    /\ LET w == SetError(IF Alive(t) THEN Fault(W) ELSE W, t, code)
       IN IF code = "SEND_TIMEOUT"
          THEN SetW(SendReturn(w, t, FALSE))
          ELSE SetW(Disconnect(w, t, "w"))

\* WmsIntegration._update_command_statuses for shuttle s: a state that bears
\* a WMS context and is FREE or ERROR is reported; when the report went
\* through the context is cleared.
UpdateCommandStatuses(s, success) ==
    /\ state[s].external_id # "" /\ state[s].document_type # ""
    /\ state[s].status \in {"FREE", "ERROR"}
    /\ success
    /\ SetW([W EXCEPT !.state[s].external_id = "",
                      !.state[s].document_type = ""])

\* ShuttleMonitor._check_shuttle, for a shuttle whose state is ERROR or
\* UNKNOWN or that was silent for a minute
CheckShuttle(s) ==
    /\ pc[Monitor] = "idle"
    /\ nchecks < MaxChecks
    /\ \E stale \in BOOLEAN :
          state[s].status \in {"ERROR", "UNKNOWN"} \/ stale
    /\ SetW(Connect(
          [W EXCEPT !.nchecks = @ + 1, !.monPhase = "connect",
                    !.tcmd[Monitor] = ShuttleCommand("STATUS", s, 0, 0)],
          Monitor))


(***************************************************************************)
(* Inbound lines.  A line is the sequence of the pieces the code looks at: *)
(* "PALLET_IN_STARTED" is <<"PALLET_IN", "_STARTED">>, "STATUS=FREE" is    *)
(* <<"STATUS=", "FREE">>.                                                  *)
(***************************************************************************)
EndsWith(m, x) == m # <<>> /\ m[Len(m)] = x
StartsWith(m, x) == m # <<>> /\ m[1] = x
Has(m, x) == \E j \in 1..Len(m) : m[j] = x
IsMRCD(m) == m = <<"MRCD">>

\* message.split("=", 1)[1] of a line whose first piece ends with "="
Payload(m) == Tail(m)

\* str.upper() on the status words the shuttles send
Upper(x) ==
    CASE x = "free" -> "FREE" [] x = "Free" -> "FREE" [] x = "busy" -> "BUSY"
      [] x = "cargo" -> "CARGO" [] x = "not_ready" -> "NOT_READY"
      [] OTHER -> x

\* status_map.get(status_val, ShuttleStatus.UNKNOWN)
StatusMap(x) ==
    CASE x = "FREE" -> "FREE"
      [] x = "CARGO" -> "BUSY"
      [] x = "BUSY" -> "BUSY"
      [] x = "NOT_READY" -> "NOT_READY"
      [] x = "MOVING" -> "MOVING"
      [] x = "LOADING" -> "LOADING"
      [] x = "UNLOADING" -> "UNLOADING"
      [] x = "CHARGING" -> "CHARGING"
      [] x = "LOW_BATTERY" -> "LOW_BATTERY"
      [] OTHER -> "UNKNOWN"

\* The payload of STATUS= upper-cased and looked up: a payload of one piece
\* is a word, the other payloads (none, or several pieces) spell no key.
StatusOf(x) == IF Len(x) = 1 THEN StatusMap(Upper(x[1])) ELSE "UNKNOWN"

\* str.lstrip(c), str.rstrip(c), str.replace(c, '') on pieces of one
\* character; str.strip() strips blanks
RECURSIVE LStrip(_, _)
LStrip(x, c) == IF x # <<>> /\ Head(x) = c THEN LStrip(Tail(x), c) ELSE x
RECURSIVE RStrip(_, _)
RStrip(x, c) ==
    IF x # <<>> /\ x[Len(x)] = c THEN RStrip(SubSeq(x, 1, Len(x) - 1), c)
    ELSE x
Strip(x) == RStrip(LStrip(x, " "), " ")
Remove(x, c) == SelectSeq(x, LAMBDA y : y # c)

\* The decimal digits and the number a string of digits spells.
Digits == {"0", "1", "2", "3", "4", "5", "6", "7", "8", "9"}
DigitValue(d) ==
    CASE d = "0" -> 0 [] d = "1" -> 1 [] d = "2" -> 2 [] d = "3" -> 3
      [] d = "4" -> 4 [] d = "5" -> 5 [] d = "6" -> 6 [] d = "7" -> 7
      [] d = "8" -> 8 [] d = "9" -> 9
IsDigits(x) == x # <<>> /\ \A j \in 1..Len(x) : x[j] \in Digits
RECURSIVE Number(_)
Number(x) ==
    IF x = <<>> THEN 0
    ELSE 10 * Number(SubSeq(x, 1, Len(x) - 1)) + DigitValue(x[Len(x)])
Signed(x) == x # <<>> /\ Head(x) \in {"-", "+"}
Unsigned(x) == IF Signed(x) THEN Tail(x) ELSE x
Negative(x) == x # <<>> /\ Head(x) = "-"

\* int(s) of a string of signs, digits, points and other characters: <<n>>,
\* or <<>> for ValueError
ParseInt(x) ==
    IF ~IsDigits(Unsigned(x)) THEN <<>>
    ELSE <<IF Negative(x) THEN 0 - Number(Unsigned(x))
           ELSE Number(Unsigned(x))>>

\* float(s) of such a string: <<the floor of the value>>, which decides every
\* comparison with an integer, or <<>> for ValueError.  A float has digits
\* before or after at most one point.
ParseFloat(x) ==
    LET u == Unsigned(x)
        points == {j \in 1..Len(u) : u[j] = "."}
    IN IF points = {} THEN ParseInt(x)
       ELSE IF Cardinality(points) > 1 THEN <<>>
       ELSE LET k == CHOOSE j \in points : TRUE
                int == SubSeq(u, 1, k - 1)
                frac == SubSeq(u, k + 1, Len(u))
            IN IF (int = <<>> /\ frac = <<>>)
                  \/ (int # <<>> /\ ~IsDigits(int))
                  \/ (frac # <<>> /\ ~IsDigits(frac))
               THEN <<>>
               ELSE IF ~Negative(x) THEN <<Number(int)>>
               ELSE IF Number(frac) = 0 THEN <<0 - Number(int)>>
               ELSE <<0 - Number(int) - 1>>

\* location_data.split("CELL:", 1)[1].split(",")[0].strip()
RECURSIVE UntilComma(_)
UntilComma(x) ==
    IF x = <<>> \/ Head(x) = "," THEN <<>>
    ELSE <<Head(x)>> \o UntilComma(Tail(x))
CellInfo(x) ==
    LET j == CHOOSE k \in 1..Len(x) :
                 x[k] = "CELL:" /\ \A i \in 1..(k - 1) : x[i] # "CELL:"
    IN Strip(UntilComma(SubSeq(x, j + 1, Len(x))))

\* ShuttleClient._process_message, branch by branch.  A field that holds a
\* string or a number is <<>> while it is None.
\* lines 189-201
OnStarted(st, m) ==
    [st EXCEPT !.status =
        CASE Has(m, "PALLET_IN") -> "LOADING"
          [] Has(m, "PALLET_OUT") -> "UNLOADING"
          [] Has(m, "HOME") -> "MOVING"
          [] OTHER -> "BUSY"]
\* lines 203-207
OnDone(st, m) == [st EXCEPT !.status = "FREE", !.current_command = "NONE"]
\* lines 209-213
OnAbort(st, m) ==
    [st EXCEPT !.status = "ERROR", !.error_code = m,
               !.current_command = "NONE"]
\* lines 215-229
OnLocation(st, m) ==
    [st EXCEPT !.location_data = <<Payload(m)>>,
               !.status = "FREE", !.current_command = "NONE",
               !.current_cell = IF Has(Payload(m), "CELL:")
                                THEN <<CellInfo(Payload(m))>> ELSE @]
\* lines 231-234
OnCount(st, m) ==
    [st EXCEPT !.pallet_count_data = <<m>>,
               !.status = "FREE", !.current_command = "NONE"]
\* a STATUS= branch that looks the value up as it came
OnStatusVerbatim(st, m) ==
    LET x == Payload(m)
        new == IF Len(x) = 1 THEN StatusMap(x[1]) ELSE "UNKNOWN"
    IN [st EXCEPT !.status = new,
                  !.current_command =
                     IF new \in {"FREE", "NOT_READY", "UNKNOWN"}
                     THEN "NONE" ELSE @]
\* lines 236-258
OnStatus(st, m) ==
    LET new == StatusOf(Payload(m))
    IN [st EXCEPT !.status = new,
                  !.current_command =
                     IF new \in {"FREE", "NOT_READY", "UNKNOWN"}
                     THEN "NONE" ELSE @]
\* a BATTERY= branch for which 20 is low as well
OnBatteryInclusive(st, m) ==
    LET level_str == Payload(m)
        parsed_level == ParseFloat(LStrip(Remove(level_str, "%"), "<"))
    IN [st EXCEPT !.battery_level = <<level_str>>,
                  !.status = IF parsed_level # <<>> /\ parsed_level[1] <= 20
                             THEN "LOW_BATTERY" ELSE @]
\* lines 260-272
OnBattery(st, m) ==
    LET level_str == Payload(m)
        parsed_level == ParseFloat(LStrip(Remove(level_str, "%"), "<"))
    IN [st EXCEPT !.battery_level = <<level_str>>,
                  !.status = IF parsed_level # <<>> /\ parsed_level[1] < 20
                             THEN "LOW_BATTERY" ELSE @]
\* lines 274-280
OnWdh(st, m) ==
    LET hours == ParseInt(Payload(m))
    IN IF hours = <<>> THEN st ELSE [st EXCEPT !.wdh_hours = hours]
\* lines 282-288
OnWlh(st, m) ==
    LET hours == ParseInt(Payload(m))
    IN IF hours = <<>> THEN st ELSE [st EXCEPT !.wlh_hours = hours]
\* lines 290-294
OnFCode(st, m) ==
    [st EXCEPT !.error_code = m, !.status = "ERROR",
               !.current_command = "NONE"]

\* a _process_message that looks at the head of the line before its tail
ProcessMessagePrefixFirst(st, m) ==
    CASE StartsWith(m, "LOCATION=") -> OnLocation(st, m)
      [] StartsWith(m, "COUNT_") /\ Has(m, "=") -> OnCount(st, m)
      [] StartsWith(m, "STATUS=") -> OnStatus(st, m)
      [] StartsWith(m, "BATTERY=") -> OnBattery(st, m)
      [] StartsWith(m, "WDH=") -> OnWdh(st, m)
      [] StartsWith(m, "WLH=") -> OnWlh(st, m)
      [] StartsWith(m, "F_CODE=") -> OnFCode(st, m)
      [] EndsWith(m, "_STARTED") -> OnStarted(st, m)
      [] EndsWith(m, "_DONE") -> OnDone(st, m)
      [] EndsWith(m, "_ABORT") -> OnAbort(st, m)
      [] OTHER -> st

\* ShuttleClient._process_message: the if/elif chain
ProcessMessage(st, m) ==
    IF EndsWith(m, "_STARTED") THEN OnStarted(st, m)
    ELSE IF EndsWith(m, "_DONE") THEN OnDone(st, m)
    ELSE IF EndsWith(m, "_ABORT") THEN OnAbort(st, m)
    ELSE IF StartsWith(m, "LOCATION=") THEN OnLocation(st, m)
    ELSE IF StartsWith(m, "COUNT_") /\ Has(m, "=") THEN OnCount(st, m)
    ELSE IF StartsWith(m, "STATUS=") THEN OnStatus(st, m)
    ELSE IF StartsWith(m, "BATTERY=") THEN OnBattery(st, m)
    ELSE IF StartsWith(m, "WDH=") THEN OnWdh(st, m)
    ELSE IF StartsWith(m, "WLH=") THEN OnWlh(st, m)
    ELSE IF StartsWith(m, "F_CODE=") THEN OnFCode(st, m)
    ELSE st

\* the lines the shuttles send in the runs explored here
LinkLines == {<<"MRCD">>, <<"STATUS=", "FREE">>}

(***************************************************************************)
(* ShuttleListener                                                         *)
(***************************************************************************)
\* _handle_connection, lines 68-83: a shuttle dialled in; id is what
\* _get_shuttle_id_by_ip made of its address.
HandleConnection(c, id) ==
    /\ inb[c].st = "unused"
    /\ IF c = 1 THEN TRUE ELSE inb[c - 1].st # "unused"
    /\ SetW([W EXCEPT !.inb[c] = [id |-> id, st |-> "open"],
                      !.lconn[id] = c,
                      !.handlers[id] =
                          IF id \in UnknownIds THEN "unknown" ELSE @])

\* ShuttleListener.send_message(id, "MRCD"): the record of what happened
SendMessage(w, id, reset) ==
    IF w.lconn[id] = 0 THEN w
    ELSE [w EXCEPT !.lastIn.acks = 1,
                   !.lconn[id] = IF reset THEN 0 ELSE @,
                   !.nfaults = IF reset THEN @ + 1 ELSE @]

\* _handle_connection, lines 86-102: a line was read and handed to the
\* handler registered for the connection's id, if there is one.
ReadLine(c, m, reset) ==
    /\ inb[c].st = "open"
    /\ reset => ~IsMRCD(m) /\ handlers[inb[c].id] # "none"
                  /\ lconn[inb[c].id] # 0
    /\ LET id == inb[c].id
           h == handlers[id]
           new == ProcessMessage(state[id], m)
           w == [W EXCEPT !.lastIn = [line |-> m, handler |-> h, acks |-> 0],
                          !.state = IF h = "mgr"
                                    THEN [@ EXCEPT ![id] = new] ELSE @,
                          !.gate = IF h = "mgr" /\ new.status = "FREE"
                                   THEN [@ EXCEPT ![id] = TRUE] ELSE @]
       IN IF h = "none" \/ IsMRCD(m) THEN SetW(w)
          ELSE SetW(SendMessage(w, id, reset))

\* _handle_connection, lines 111-127: the read loop ended
CloseInbound(c) ==
    /\ inb[c].st = "open"
    /\ SetW([W EXCEPT !.inb[c].st = "closed", !.lconn[inb[c].id] = 0])

(***************************************************************************)
(* _get_shuttle_id_by_ip.  An address is the sequence of its pieces,       *)
(* "10.0.0.9" is <<"10", ".", "0", ".", "0", ".", "9">>; config.shuttles   *)
(* is the sequence of its items in the order of the dict.                  *)
(***************************************************************************)
Addr5 == <<"10", ".", "0", ".", "0", ".", "5">>
Addr9 == <<"10", ".", "0", ".", "0", ".", "9">>
Local4 == <<"127", ".", "0", ".", "0", ".", "1">>
Local6 == <<"::1">>
LocalName == <<"localhost">>

\* config.shuttles of the model: the one shuttle, at 10.0.0.5
ConfigShuttles == <<[id |-> "s1", host |-> Addr5]>>

\* the addresses the shuttles of the model dial in from
PeerAddrs == {Addr5, Addr9}

RECURSIVE Join(_)
Join(pieces) ==
    IF pieces = <<>> THEN "" ELSE pieces[1] \o Join(Tail(pieces))

\* str.replace('.', '_')
ReplaceDots(ip) == [k \in 1..Len(ip) |-> IF ip[k] = "." THEN "_" ELSE ip[k]]

\* shuttle_listener.py:76
TempId(ip) == "temp_shuttle_" \o Join(ReplaceDots(ip))

\* "for ... in config.shuttles.items(): if ...: return": the first of the
\* items whose indexes are S, 0 when there is none
FirstItem(S) ==
    IF S = {} THEN 0 ELSE CHOOSE k \in S : \A j \in S : k <= j

\* line 147 and line 150
LoopbackSource(ip) == ip \in {Local4, Local6, LocalName}
LoopbackHost(host) == host \in {Local4, LocalName}

\* str.startswith("virtual") on the IDs of the model
VirtualIds == {"virtual1", "virtual2"}

\* a resolver that tries the virtual IDs before the loopback hosts
GetShuttleIdByIpVirtualFirst(cfg, ip) ==
    LET exact == FirstItem({k \in 1..Len(cfg) : cfg[k].host = ip})
        lo == FirstItem({k \in 1..Len(cfg) : LoopbackHost(cfg[k].host)})
        virt == FirstItem({k \in 1..Len(cfg) : cfg[k].id \in VirtualIds})
    IN IF exact # 0 THEN cfg[exact].id
       ELSE IF LoopbackSource(ip) /\ virt # 0 THEN cfg[virt].id
       ELSE IF LoopbackSource(ip) /\ lo # 0 THEN cfg[lo].id
       ELSE ""

\* _get_shuttle_id_by_ip; "" is None
GetShuttleIdByIp(cfg, ip) ==
    LET exact == FirstItem({k \in 1..Len(cfg) : cfg[k].host = ip})
        lo == FirstItem({k \in 1..Len(cfg) : LoopbackHost(cfg[k].host)})
        virt == FirstItem({k \in 1..Len(cfg) : cfg[k].id \in VirtualIds})
    IN IF exact # 0 THEN cfg[exact].id
       ELSE IF LoopbackSource(ip) /\ lo # 0 THEN cfg[lo].id
       ELSE IF LoopbackSource(ip) /\ virt # 0 THEN cfg[virt].id
       ELSE ""

\* _handle_connection, lines 72-83, for a connection from address ip: the ID
\* it uses and whether it installs _handle_unknown_shuttle_message
ConnectionId(cfg, ip) ==
    LET r == GetShuttleIdByIp(cfg, ip)
    IN [id |-> IF r = "" THEN TempId(ip) ELSE r, unknown |-> r = ""]

\* _handle_connection, lines 68-83: a shuttle dialled in from address ip
HandleConnectionFrom(c, ip) ==
    LET r == ConnectionId(ConfigShuttles, ip)
    IN /\ inb[c].st = "unused"
       /\ IF c = 1 THEN TRUE ELSE inb[c - 1].st # "unused"
       /\ SetW([W EXCEPT !.inb[c] = [id |-> r.id, st |-> "open"],
                         !.lconn[r.id] = c,
                         !.handlers[r.id] = IF r.unknown THEN "unknown" ELSE @])

(***************************************************************************)
(* The listener alone with the manager's client: shuttles dial in from a   *)
(* configured and from an unknown address while the manager connects.      *)
(***************************************************************************)
NextListen ==
    \/ \E i \in 1..LinkSubmits, s \in Shuttles : ManagerSendCommand(i, "MRCD", s)
    \/ \E t \in Tasks : LockGranted(t)
    \/ \E t \in Tasks : DialOk(t)
    \/ \E t \in Tasks : StDrainOk(t)
    \/ \E t \in Tasks : DrainOk(t)
    \/ \E c \in 1..MaxInbound, ip \in PeerAddrs : HandleConnectionFrom(c, ip)
    \/ \E c \in 1..MaxInbound, m \in LinkLines : ReadLine(c, m, FALSE)
    \/ \E c \in 1..MaxInbound : CloseInbound(c)

SpecListen == Init /\ [][NextListen]_vars

\* the configurations and the source addresses the resolver is tried on
ConfigIds == {"s1", "virtual1", "virtual2"}
ConfigHosts == {Addr5, Local4, Local6, LocalName}
Configs ==
    {cfg \in UNION {[1..n -> [id : ConfigIds, host : ConfigHosts]] :
                       n \in 0..MaxConfig} :
        \A j, k \in 1..Len(cfg) : j # k => cfg[j].id # cfg[k].id}
SourceAddrs == {Addr5, Addr9, Local4, Local6, LocalName}

\* the least index of a non-empty set of indexes
Least(S) == CHOOSE k \in S : \A j \in S : k <= j

\* C31 (ID of an inbound connection): for every configuration and source
\* address the listener uses the ID of the first configured shuttle whose
\* host equals the address; failing that, for a source 127.0.0.1, ::1 or
\* localhost, the first configured shuttle whose host is 127.0.0.1 or
\* localhost, then the first configured ID starting with "virtual"; failing
\* all, temp_shuttle_<ip with "_" for "."> with the unknown-shuttle handler,
\* which is installed in no other case.  The handler registered for a
\* configured ID is never the unknown-shuttle handler.
C31_ResolveByIp ==
    /\ \A cfg \in Configs, ip \in SourceAddrs :
          LET E == {k \in 1..Len(cfg) : cfg[k].host = ip}
              L == {k \in 1..Len(cfg) : cfg[k].host \in {Local4, LocalName}}
              V == {k \in 1..Len(cfg) : cfg[k].id \in VirtualIds}
              lo == ip \in {Local4, Local6, LocalName}
              r == ConnectionId(cfg, ip)
          IN /\ E # {} => r = [id |-> cfg[Least(E)].id, unknown |-> FALSE]
             /\ E = {} /\ lo /\ L # {} =>
                   r = [id |-> cfg[Least(L)].id, unknown |-> FALSE]
             /\ E = {} /\ lo /\ L = {} /\ V # {} =>
                   r = [id |-> cfg[Least(V)].id, unknown |-> FALSE]
             /\ E = {} /\ (lo => L = {} /\ V = {}) =>
                   /\ r.unknown
                   /\ r.id \notin {cfg[k].id : k \in 1..Len(cfg)}
                   /\ ip = Addr9 => r.id = "temp_shuttle_10_0_0_9"
                   /\ ip = Local6 => r.id = "temp_shuttle_::1"
    /\ \A s \in Shuttles : handlers[s] # "unknown"
    /\ \A c \in 1..MaxInbound :
          inb[c].st # "unused" =>
              (inb[c].id \in UnknownIds <=> handlers[inb[c].id] = "unknown")

\* a shuttle at an unknown address and the configured shuttle are both
\* connected, the first under its temporary ID with the unknown-shuttle
\* handler, the second under its own ID with the manager's handler
C31_Witness ==
    /\ \E c \in 1..MaxInbound :
          /\ inb[c] = [id |-> "temp_shuttle_10_0_0_9", st |-> "open"]
          /\ handlers[inb[c].id] = "unknown"
    /\ \E c \in 1..MaxInbound : inb[c] = [id |-> "s1", st |-> "open"]
    /\ handlers["s1"] = "mgr"

\* C36 (connection table on reconnect): the newest open inbound connection
\* of an ID is the one the connection table has for that ID, whatever
\* happened to older connections of the same ID.
C36_TableHasNewest ==
    \A c \in 1..MaxInbound :
        /\ inb[c].st = "open"
        /\ \A d \in (c + 1)..MaxInbound :
              ~(inb[d].st = "open" /\ inb[d].id = inb[c].id)
        => lconn[inb[c].id] = c

(***************************************************************************)
(* The link layer: the callers of ShuttleClient (fast-path callers, a      *)
(* worker, the health monitor) against the listener and the transport.     *)
(***************************************************************************)
LinkTypes == {"HOME", "PALLET_IN"}

NextLink ==
    \/ \E i \in 1..LinkSubmits, type \in LinkTypes, s \in Shuttles :
          ManagerSendCommand(i, type, s)
    \/ \E t \in Tasks : LockGranted(t)
    \/ \E wk \in Workers, s \in Shuttles : CommandProcessorWorker(wk, s)
    \/ \E t \in Tasks : DialOk(t)
    \/ \E t \in Tasks, exc \in DialErrors :
          nfaults < MaxFaults /\ DialFail(t, exc)
    \/ \E t \in Tasks : CmLockGranted(t)
    \/ \E t \in Tasks : CloseGranted(t)
    \/ \E t \in Tasks : StDrainOk(t)
    \/ \E t \in Tasks, code \in DrainErrors :
          (Alive(t) => nfaults < MaxFaults) /\ StDrainFail(t, code)
    \/ \E t \in Tasks : DrainOk(t)
    \/ \E t \in Tasks, code \in DrainErrors :
          (Alive(t) => nfaults < MaxFaults) /\ DrainFail(t, code)
    \/ \E s \in Shuttles : CheckShuttle(s)
    \/ \E c \in 1..MaxInbound, id \in ListenerIds : HandleConnection(c, id)
    \/ \E c \in 1..MaxInbound, m \in LinkLines, reset \in BOOLEAN :
          (reset => nfaults < MaxFaults) /\ ReadLine(c, m, reset)
    \/ \E c \in 1..MaxInbound : CloseInbound(c)

SpecLink == Init /\ [][NextLink]_vars

\* the manager's client of shuttle s is connected and is not in disconnect
ManagerConnected(w, s, p) ==
    /\ w[s].connected
    /\ \A t \in Tasks \ {Monitor} :
          p[t] \notin {"close_st", "close_w", "close_s"}

\* C33 (the monitor leaves the state engine alone): when _check_shuttle
\* returns, the handler registered for the ID of a shuttle whose manager
\* client is connected is the handler of that client.
C33_MonitorKeepsHandler ==
    [][(monPhase # "idle" /\ monPhase' = "idle") =>
          \A s \in Shuttles :
              ManagerConnected(client', s, pc') => handlers'[s] = "mgr"]_vars

\* the same at every moment no check is running and none has run
C33_HandlerWithoutMonitor ==
    \A s \in Shuttles :
        nchecks = 0 /\ ManagerConnected(client, s, pc) => handlers[s] = "mgr"


(***************************************************************************)
(* The connection registry alone: the manager's client and the monitor's   *)
(* client asking get_connection for the same shuttle, with failing dials,  *)
(* failing writes and closes in between.                                   *)
(***************************************************************************)
DedupTypes == {"HOME"}

NextDedup ==
    \/ \E i \in 1..LinkSubmits, type \in DedupTypes, s \in Shuttles :
          ManagerSendCommand(i, type, s)
    \/ \E t \in Tasks : LockGranted(t)
    \/ \E t \in Tasks : DialOk(t)
    \/ \E t \in Tasks, exc \in DialErrors :
          nfaults < MaxFaults /\ DialFail(t, exc)
    \/ \E t \in Tasks : CmLockGranted(t)
    \/ \E t \in Tasks : CloseGranted(t)
    \/ \E t \in Tasks : StDrainOk(t)
    \/ \E t \in Tasks, code \in DrainErrors :
          (Alive(t) => nfaults < MaxFaults) /\ StDrainFail(t, code)
    \/ \E t \in Tasks : DrainOk(t)
    \/ \E t \in Tasks, code \in DrainErrors :
          (Alive(t) => nfaults < MaxFaults) /\ DrainFail(t, code)
    \/ \E s \in Shuttles : CheckShuttle(s)

SpecDedup == Init /\ [][NextDedup]_vars


(***************************************************************************)
(* Properties of the link layer.                                           *)
(***************************************************************************)
\* the fibers between writer.write and the end of drain() in
\* ShuttleClient.send_command for shuttle s
InWrite(s) ==
    {t \in Tasks : pc[t] \in {"st_drain", "drain"} /\ tcmd[t].shuttle_id = s}

\* C1 (serial in-flight): for every shuttle, at no time are two commands
\* inside the outbound write of ShuttleClient.send_command, whoever the
\* senders are: fast-path callers, workers, the connect-time STATUS request,
\* the health monitor.
C1_SerialInFlight == \A s \in Shuttles : Cardinality(InWrite(s)) <= 1

\* C7 (always reply): every line other than MRCD that the listener read
\* from an accepted connection was answered with an MRCD line, for
\* configured and unknown shuttles, before any dispatch and after a check of
\* the monitor.
C7_AlwaysReplies ==
    (lastIn.line # NoLine /\ ~IsMRCD(lastIn.line)) => lastIn.acks = 1

\* C8 (auto-ack): a line handed to the state engine's handler
\* (ShuttleClient._process_message_from_listener) produced exactly one
\* outbound MRCD when it was not MRCD, and none when it was.
C8_AutoAck ==
    (lastIn.line # NoLine /\ lastIn.handler \in {"mgr", "mon"})
        => lastIn.acks = IF IsMRCD(lastIn.line) THEN 0 ELSE 1

Dialling(s) == {t \in Tasks : pc[t] = "dialing" /\ tcmd[t].shuttle_id = s}

\* the shuttle a client is for
ClientShuttle(k) == IF k \in Shuttles THEN k ELSE tcmd[Monitor].shuttle_id

\* C9 (connection dedup): among the concurrent get_connection calls for one
\* shuttle at most one dial is in flight; a dial is in flight only while no
\* link is registered for the shuttle (a registered link is returned
\* without dialling), so a successful dial is the only one; and every client
\* that holds an open link holds the registered one.
C9_ConnectionDedup ==
    \A s \in Shuttles :
        /\ Cardinality(Dialling(s)) <= 1
        /\ Dialling(s) # {} => cm.conn[s] = NoLink /\ s \in cm.connecting
        /\ \A k \in ClientIds :
              (ClientShuttle(k) = s /\ client[k].writer \in openLinks)
                  => client[k].writer = cm.conn[s]

\* C9, its case: the manager's client and the monitor's client called
\* get_connection one while the other's call was under way, one dial was
\* made and both hold the link it gave.
C9_Witness ==
    /\ nlinks = 1
    /\ client["s1"].connected /\ client["monitor"].connected
    /\ client["s1"].writer = 1 /\ client["monitor"].writer = 1
    /\ 1 \in openLinks

\* C10 (inbound identity): once the listener has installed the link a
\* configured shuttle dialled in with, a dispatch to that shuttle causes no
\* dial.
C10_InboundIdentity ==
    [][\A s \in Shuttles : \A t \in Submitters \cup Workers :
          (lconn[s] # 0 /\ pc'[t] = "dialing" /\ tcmd'[t].shuttle_id = s)
              => pc[t] = "dialing"]_vars


\* C11 (write failure handling): when a dispatch returns after its outbound
\* write failed, by a write timeout or by any other error, the shuttle's
\* status is ERROR with a transport error code, the link is closed and gone
\* from the connection registry and the client is disconnected, so that the
\* next dispatch redials; the command's record is marked failed.
C11_WriteFailureClosesLink ==
    [][\A t \in Submitters \cup Workers :
          (/\ pc[t] \in {"drain", "close_w"}
           /\ pc'[t] \in {"done", "idle"}
           /\ registry'[CommandId(tcmd[t])].status = "failed")
          => /\ state'[tcmd[t].shuttle_id].status = "ERROR"
             /\ state'[tcmd[t].shuttle_id].error_code
                    \in {<<"SEND_TIMEOUT">>, <<"SEND_ERROR">>}
             /\ cm'.conn[tcmd[t].shuttle_id] = NoLink
             /\ ~client'[tcmd[t].shuttle_id].connected]_vars

\* C23 (dispatch on the registered link): whenever a caller or a worker
\* writes a command, it writes on the link the connection registry holds for
\* the shuttle at that moment, and that link is open; a dispatch that follows
\* the closing of the registry entry redials first.
C23_WritesOnRegisteredLink ==
    [][\A t \in Submitters \cup Workers :
          pc[t] # "drain" /\ pc'[t] = "drain"
              => LET s == tcmd'[t].shuttle_id
                 IN /\ client'[s].writer = cm'.conn[s]
                    /\ client'[s].writer \in openLinks']_vars

\* C13 (failed dial): when the dial of a get_connection call fails, the
\* error reaches the caller (its client stays disconnected without a writer;
\* the manager's client records a connection error), and the registry holds
\* no link for the shuttle and does not list it as connecting.
C13_FailedDialLeavesNothing ==
    [][\A t \in Tasks :
          (pc[t] = "dialing" /\ pc'[t] # "dialing" /\ nlinks' = nlinks)
          => /\ cm'.conn[tcmd[t].shuttle_id] = NoLink
             /\ tcmd[t].shuttle_id \notin cm'.connecting
             /\ ~client'[ClientOf(W, t)].connected
             /\ client'[ClientOf(W, t)].writer = NoLink
             /\ t # Monitor =>
                   state'[tcmd[t].shuttle_id].error_code
                       \in {<<"CONNECTION_TIMEOUT">>, <<"CONNECTION_REFUSED">>}]_vars

\* C13, its case: after a dial failed, a later get_connection call for the
\* same shuttle dials again.
C13_Witness ==
    \E s \in Shuttles :
        /\ state[s].error_code
               \in {<<"CONNECTION_TIMEOUT">>, <<"CONNECTION_REFUSED">>}
        /\ nlinks = 0
        /\ Dialling(s) # {}

(***************************************************************************)
(* Dispatches to a shuttle whose host does not answer: every dial that     *)
(* fails does so by the timeout of asyncio.wait_for.                       *)
(***************************************************************************)
NextTimeout ==
    \/ \E i \in 1..LinkSubmits, type \in LinkTypes, s \in Shuttles :
          ManagerSendCommand(i, type, s)
    \/ \E t \in Tasks : LockGranted(t)
    \/ \E wk \in Workers, s \in Shuttles : CommandProcessorWorker(wk, s)
    \/ \E t \in Tasks : DialOk(t)
    \/ \E t \in Tasks : nfaults < HomeFaults /\ DialFail(t, "TimeoutError")
    \/ \E t \in Tasks : StDrainOk(t)
    \/ \E t \in Tasks : DrainOk(t)
    \/ \E s \in Shuttles : HandleConnection(1, s)
    \/ \E m \in LinkLines : ReadLine(1, m, FALSE)

SpecTimeout == Init /\ [][NextTimeout]_vars

\* C12 (timeout to ERROR): when the dial of a dispatch times out, the
\* dispatch ends in that step: the shuttle's status is ERROR with error_code
\* CONNECTION_TIMEOUT, no link was opened and no write was begun on any
\* link, and the command is recorded failed.
C12_DialTimeout ==
    [][\A t \in Submitters \cup Workers :
          (pc[t] = "dialing" /\ pc'[t] # "dialing" /\ nlinks' = nlinks)
          => /\ state'[tcmd[t].shuttle_id].status = "ERROR"
             /\ state'[tcmd[t].shuttle_id].error_code
                    = <<"CONNECTION_TIMEOUT">>
             /\ wire' = wire /\ openLinks' = openLinks
             /\ \A u \in Tasks :
                   pc'[u] \in {"st_drain", "drain"} => pc'[u] = pc[u]
             /\ pc'[t] \in {"done", "idle"}
             /\ registry'[CommandId(tcmd[t])].status = "failed"]_vars

\* C12, its case: a caller's dispatch returned failed after its dial timed
\* out, with nothing of it written.
C12_Witness ==
    \E i \in Submitters :
        /\ pc[i] = "done"
        /\ registry[CommandId(tcmd[i])].status = "failed"
        /\ state[tcmd[i].shuttle_id].status = "ERROR"
        /\ state[tcmd[i].shuttle_id].error_code = <<"CONNECTION_TIMEOUT">>
        /\ \A j \in 1..Len(wire[tcmd[i].shuttle_id]) :
              wire[tcmd[i].shuttle_id][j].sub # i

(***************************************************************************)
(* The scheduler: callers, workers and cancellation on a sound link.       *)
(***************************************************************************)
RaceTypes == {"MRCD", "PALLET_IN", "PALLET_OUT"}
RaceLines == {<<"STATUS=", "FREE">>}

NextRace ==
    \/ \E i \in 1..RaceSubmits, type \in RaceTypes, s \in Shuttles :
          ManagerSendCommand(i, type, s)
    \/ \E i \in Submitters : PutWoken(i)
    \/ \E t \in Tasks : LockGranted(t)
    \/ \E wk \in Workers, s \in Shuttles : CommandProcessorWorker(wk, s)
    \/ \E id \in CommandIds : CancelCommand(id)
    \/ \E t \in Tasks : DialOk(t)
    \/ \E t \in Tasks : StDrainOk(t)
    \/ \E t \in Tasks : DrainOk(t)
    \/ \E s \in Shuttles : HandleConnection(1, s)
    \/ \E m \in RaceLines : ReadLine(1, m, FALSE)

SpecRace == Init /\ [][NextRace]_vars

\* the moves of a record's status the lifecycle allows
LifecycleMoves ==
    {<<"queued", "processing">>, <<"processing", "completed">>,
     <<"processing", "failed">>, <<"queued", "cancelled">>}

\* C34 (registry lifecycle): the status of a record of the registry only
\* moves queued -> processing -> completed or failed, or queued ->
\* cancelled; a completed, failed or cancelled record keeps its status.
C34_Lifecycle ==
    [][\A id \in CommandIds :
          LET a == registry[id].status
              b == registry'[id].status
          IN a = b \/ a = "none" \/ <<a, b>> \in LifecycleMoves]_vars

\* the same for the records no later submission has overwritten
C34_LifecycleOfOneSubmission ==
    [][\A id \in CommandIds :
          LET a == registry[id].status
              b == registry'[id].status
          IN registry'[id].command = registry[id].command =>
                 a = b \/ a = "none" \/ <<a, b>> \in LifecycleMoves]_vars

\* C2 (cancellation): a command whose cancel_command call found it queued
\* and returned True is not written to the shuttle's link afterwards.
C2_CancelledNeverDispatched ==
    \A i \in Submitters :
        cancelAt[i] >= 0 =>
            \A j \in 1..Len(wire[tcmd[i].shuttle_id]) :
                j > cancelAt[i] => wire[tcmd[i].shuttle_id][j].sub # i

\* C3 (backpressure): a call that submits a queued command while the queue
\* holds command_queue_max_size entries returns at once, leaves the queue as
\* it is and records the command as failed with the error "Queue full".
C3_Backpressure ==
    [][\A i \in Submitters :
          (/\ pc[i] = "idle" /\ pc'[i] # "idle"
           /\ tcmd'[i].type # "HOME"
           /\ tcmd'[i].priority > FastPathPriority
           /\ Len(queue[tcmd'[i].shuttle_id]) >= qmax)
          => /\ pc'[i] = "done"
             /\ queue' = queue
             /\ registry'[CommandId(tcmd'[i])].status = "failed"
             /\ registry'[CommandId(tcmd'[i])].error = "Queue full"]_vars

\* C14 (cancel of what is not queued): cancel_command on an ID whose record
\* is processing, completed, failed or cancelled, or on an ID that is not in
\* the registry, returns at once without a True result and leaves the
\* registry, the queues, the blocked callers, the locks and the shuttle
\* states as they are.
C14_CancelFrame ==
    \A id \in CommandIds :
        (pc[Canceller] = "idle" /\ registry[id].status # "queued") =>
            LET u == CancelCall(W, id)
            IN /\ u.registry = registry /\ u.queue = queue
               /\ u.putters = putters /\ u.lock = lock /\ u.state = state
               /\ u.cancelAt = cancelAt /\ u.pc = pc /\ u.wire = wire

\* C14, its case: a cancel_command call has returned without cancelling
\* while a record of the registry was past "queued".
C14_Witness ==
    /\ ncancels >= 1 /\ pc[Canceller] = "idle"
    /\ \A i \in Submitters : cancelAt[i] = -1
    /\ \E id \in CommandIds :
          registry[id].status \in {"processing", "completed", "failed"}

\* C6 (free-shuttle gate): every command a worker dispatches is written
\* after the shuttle's status was FREE again since the previous dispatch of
\* a worker returned: no two queued commands go out without FREE in
\* between.
C6_FreeGate ==
    \A s \in Shuttles : \A j \in 1..Len(wire[s]) :
        wire[s][j].by \in Workers => wire[s][j].gate


(***************************************************************************)
(* The fast path next to the queue, on a transport that may fail.          *)
(***************************************************************************)
FastTypes == {"HOME", "MRCD", "PALLET_IN"}

NextFast ==
    \/ \E i \in 1..LinkSubmits, type \in FastTypes, s \in Shuttles :
          ManagerSendCommand(i, type, s)
    \/ \E t \in Tasks : LockGranted(t)
    \/ \E wk \in Workers, s \in Shuttles : CommandProcessorWorker(wk, s)
    \/ \E t \in Tasks : DialOk(t)
    \/ \E t \in Tasks, exc \in DialErrors :
          nfaults < MaxFaults /\ DialFail(t, exc)
    \/ \E t \in Tasks : StDrainOk(t)
    \/ \E t \in Tasks, code \in DrainErrors :
          nfaults < MaxFaults /\ StDrainFail(t, code)
    \/ \E t \in Tasks : DrainOk(t)
    \/ \E t \in Tasks, code \in DrainErrors :
          nfaults < MaxFaults /\ DrainFail(t, code)
    \/ \E s \in Shuttles : HandleConnection(1, s)
    \/ \E m \in RaceLines : ReadLine(1, m, FALSE)

SpecFast == Init /\ [][NextFast]_vars

\* C38 (one line per dispatch) as stated: a step of a dispatch writes
\* nothing on the link but the wire form of the command it dispatches, and
\* no command is written twice: no STATUS line is ever written.
C38_OnlyTheCommand ==
    /\ [](\A s \in Shuttles :
             \A j, k \in 1..Len(wire[s]) :
                 j # k => wire[s][j].sub # wire[s][k].sub)
    /\ [][\A s \in Shuttles :
             /\ nstatus'[s] = nstatus[s]
             /\ wire'[s] # wire[s] =>
                   \E t \in Submitters \cup Workers :
                       /\ tcmd'[t].shuttle_id = s /\ pc'[t] = "drain"
                       /\ wire'[s] =
                            Append(wire[s],
                                   [sub |-> tcmd'[t].sub, by |-> t,
                                    line |-> to_string(tcmd'[t].type),
                                    gate |-> gate[s]])]_vars

\* C38 (one line per dispatch) as the code has it: a dispatch writes the
\* wire form of its command once and nothing else, except that the step in
\* which it connects the client writes one STATUS line first; no other step
\* writes on the link.
C38_CommandAfterStatus ==
    /\ [](\A s \in Shuttles :
             \A j, k \in 1..Len(wire[s]) :
                 j # k => wire[s][j].sub # wire[s][k].sub)
    /\ [][\A s \in Shuttles :
             /\ nstatus'[s] =
                   IF ~client[s].connected /\ client'[s].connected
                   THEN nstatus[s] + 1 ELSE nstatus[s]
             /\ nstatus'[s] # nstatus[s] =>
                   /\ wire'[s] = wire[s]
                   /\ \E t \in Submitters \cup Workers :
                         /\ tcmd'[t].shuttle_id = s
                         /\ pc[t] # "st_drain" /\ pc'[t] = "st_drain"
             /\ wire'[s] # wire[s] =>
                   \E t \in Submitters \cup Workers :
                       /\ tcmd'[t].shuttle_id = s /\ pc'[t] = "drain"
                       /\ wire'[s] =
                            Append(wire[s],
                                   [sub |-> tcmd'[t].sub, by |-> t,
                                    line |-> to_string(tcmd'[t].type),
                                    gate |-> gate[s]])]_vars

\* two dispatches have returned: the first had to dial and wrote STATUS and
\* its command, the second wrote its command only
C38_Witness ==
    \E s \in Shuttles :
        /\ nstatus[s] = 1 /\ Len(wire[s]) = 2
        /\ \A i \in 1..2 : pc[i] = "done"
        /\ client[s].connected

\* shuttle_manager.py:86 and 115
IsFastPath(c) == c.type = "HOME" \/ c.priority <= FastPathPriority

\* C15 (fast path): no HOME command and no command of priority 4 or less is
\* ever in a queue; such a command is written with the shuttle's lock held,
\* whatever the shuttle's status; and when its submit returns, the registry
\* holds the command as completed if its write went through and as failed
\* otherwise.
C15_FastPath ==
    [][/\ \A s \in Shuttles : \A j \in 1..Len(queue'[s]) :
             ~IsFastPath(queue'[s][j])
       /\ \A i \in Submitters :
             (tcmd'[i] # NoCmd /\ IsFastPath(tcmd'[i])) =>
                /\ (pc'[i] = "drain" /\ pc[i] # "drain")
                      => lock'[tcmd'[i].shuttle_id].locked
                /\ (pc'[i] = "done" /\ pc[i] # "done")
                      => /\ registry'[CommandId(tcmd'[i])].command = tcmd'[i]
                         /\ registry'[CommandId(tcmd'[i])].status =
                               IF /\ pc[i] = "drain"
                                  /\ client[tcmd'[i].shuttle_id].writer
                                         \in openLinks
                                  /\ nfaults' = nfaults
                               THEN "completed" ELSE "failed"]_vars

\* C15, its case: an MRCD (priority 4) was written to a shuttle that was
\* BUSY and its submit returned with the command recorded completed.
C15_Witness ==
    \E i \in Submitters :
        /\ pc[i] = "done" /\ tcmd[i].type = "MRCD"
        /\ registry[CommandId(tcmd[i])].status = "completed"
        /\ \E j \in 1..Len(wire[tcmd[i].shuttle_id]) :
              wire[tcmd[i].shuttle_id][j].sub = i
        /\ state[tcmd[i].shuttle_id].status = "BUSY"

\* the step in which the dispatch of tcmd[t] returns with success
DispatchReturns(t) ==
    /\ pc[t] = "drain" /\ pc'[t] # "drain"
    /\ registry'[CommandId(tcmd[t])].status = "completed"

\* after the dispatch of c the state bears c and c's WMS context
Stamped(st, type) ==
    /\ st.last_command = type
    /\ st.external_id = ExternalId(type)
    /\ st.document_type = DocumentType(type)
    /\ st.cell_id = CellId(type)
    /\ st.stock_name = StockName(type)

\* only MRCDs were dispatched, on a sound link, and no line has come in
OnlyMRCD ==
    /\ \A t \in Submitters \cup Workers : tcmd[t].type \in {"NONE", "MRCD"}
    /\ lastIn.line = NoLine
    /\ nfaults = 0

\* C24 as stated (dispatch frame): after a successful dispatch of c the
\* state has last_command = c and the external_id, document_type, cell_id
\* and stock_name of c; its status is BUSY if c is not MRCD and is what it
\* was before the dispatch if c is MRCD, so that dispatching nothing but
\* MRCDs leaves the status of a shuttle what it was at the start.
C24_DispatchFrame ==
    /\ [][\A t \in Submitters \cup Workers :
             DispatchReturns(t) =>
                LET s == tcmd[t].shuttle_id
                IN /\ Stamped(state'[s], tcmd[t].type)
                   /\ tcmd[t].type # "MRCD" => state'[s].status = "BUSY"]_vars
    /\ [](OnlyMRCD => \A s \in Shuttles :
                         state[s].status = InitialState.status)

\* C24 as amended: the same, except that for an MRCD the status is left as
\* the write found it, and a dispatch that had to connect first has by then
\* sent the STATUS request of connect(), which set the status to BUSY and
\* last_command to STATUS, or the status to ERROR when its flush timed out.
C24_AfterDispatch ==
    [][\A t \in Submitters \cup Workers :
          /\ DispatchReturns(t) =>
                LET s == tcmd[t].shuttle_id
                IN /\ Stamped(state'[s], tcmd[t].type)
                   /\ state'[s].status =
                         IF tcmd[t].type # "MRCD" THEN "BUSY"
                         ELSE state[s].status
          /\ pc[t] = "st_drain" /\ pc'[t] = "drain" =>
                LET s == tcmd[t].shuttle_id
                IN IF nfaults' = nfaults
                   THEN /\ state'[s].status = "BUSY"
                        /\ state'[s].last_command = "STATUS"
                   ELSE state'[s].status = "ERROR"]_vars

\* C24, its case: an MRCD was dispatched to a shuttle that had reported
\* FREE and left it FREE, with MRCD as its last command.
C24_Witness ==
    \E i \in Submitters :
        /\ pc[i] = "done" /\ tcmd[i].type = "MRCD"
        /\ registry[CommandId(tcmd[i])].status = "completed"
        /\ state[tcmd[i].shuttle_id].status = "FREE"
        /\ state[tcmd[i].shuttle_id].last_command = "MRCD"

(***************************************************************************)
(* The state engine: dispatches on a sound link and the lines the shuttle  *)
(* sends back.                                                             *)
(***************************************************************************)
StateLines ==
    {<<"PALLET_IN", "_STARTED">>, <<"PALLET_IN", "_DONE">>,
     <<"HOME", "_ABORT">>, <<"LOCATION=", "CELL:", "A1">>,
     <<"STATUS=", "busy">>, <<"STATUS=", "FREE">>,
     <<"BATTERY=", "1", "5", "%">>,
     <<"F_CODE=", "7">>}

NextState ==
    \/ \E i \in 1..LinkSubmits, type \in FastTypes, s \in Shuttles :
          ManagerSendCommand(i, type, s)
    \/ \E t \in Tasks : LockGranted(t)
    \/ \E wk \in Workers, s \in Shuttles : CommandProcessorWorker(wk, s)
    \/ \E t \in Tasks : DialOk(t)
    \/ \E t \in Tasks : StDrainOk(t)
    \/ \E t \in Tasks : DrainOk(t)
    \/ \E s \in Shuttles : HandleConnection(1, s)
    \/ \E m \in StateLines : ReadLine(1, m, FALSE)

SpecState == Init /\ [][NextState]_vars

\* C16 (state invariant ii): a shuttle whose status is BUSY, MOVING, LOADING
\* or UNLOADING has a current_command.
C16_BusyHasCommand ==
    \A s \in Shuttles :
        state[s].status \in {"BUSY", "MOVING", "LOADING", "UNLOADING"}
            => state[s].current_command # "NONE"

\* C17 (state invariant iii): a shuttle whose status is FREE has no
\* current_command.
C17_FreeHasNoCommand ==
    \A s \in Shuttles :
        state[s].status = "FREE" => state[s].current_command = "NONE"

\* C17, its case: a shuttle that was sent a command reported FREE.
C17_Witness ==
    \E s \in Shuttles :
        /\ state[s].status = "FREE"
        /\ state[s].last_command \in FastTypes

(***************************************************************************)
(* The rules of the state engine as a table: the pattern of each row and   *)
(* what the row alone does to a state.                                     *)
(***************************************************************************)
\* the lines the rules are tried on, lines that fit several rows and lines
\* that fit none among them
EngineLines ==
    {<<"PALLET_IN", "_STARTED">>, <<"PALLET_OUT", "_STARTED">>,
     <<"HOME", "_STARTED">>, <<"x", "_STARTED">>,
     <<"PALLET_IN", "_DONE">>, <<"HOME", "_ABORT">>,
     <<"STATUS=", "BUSY", "_DONE">>, <<"STATUS=", "PALLET_IN", "_STARTED">>,
     <<"LOCATION=", "x", "_ABORT">>, <<"F_CODE=", "7", "_ABORT">>,
     <<"BATTERY=", "1", "5", "_DONE">>, <<"WDH=", "7", "_STARTED">>,
     <<"LOCATION=", "CELL:", "A1">>, <<"LOCATION=", "CELL:", "A1", ",", "x">>,
     <<"LOCATION=", "x">>, <<"LOCATION=", "STATUS=", "BUSY">>,
     <<"COUNT_", "A", "=", "3">>, <<"COUNT_", "A">>,
     <<"COUNT_", "STATUS=", "BUSY">>, <<"COUNT_", "=", "STATUS=", "BUSY">>,
     <<"STATUS=", "FREE">>, <<"STATUS=", "CARGO">>, <<"STATUS=", "BUSY">>,
     <<"STATUS=", "NOT_READY">>, <<"STATUS=", "CHARGING">>,
     <<"STATUS=", "xyz">>, <<"STATUS=", "BATTERY=", "1">>,
     <<"BATTERY=", "8", "0", "%">>, <<"BATTERY=", "1", "5", "%">>,
     <<"BATTERY=", "<", "1", "0", "%">>, <<"BATTERY=", "WDH=", "1">>,
     <<"WDH=", "4", "2">>, <<"WLH=", "7">>, <<"WLH=", "F_CODE=", "7">>,
     <<"F_CODE=", "7">>, <<"F_CODE=", "STATUS=", "FREE">>,
     <<"MRCD">>, <<"x">>, <<>>, <<"x", "STATUS=", "FREE">>,
     <<"x", "_DONE", "x">>}

\* the lines the shuttle sends in the runs of the engine
FeedLines ==
    {<<"STATUS=", "BUSY", "_DONE">>, <<"STATUS=", "free">>,
     <<"STATUS=", "CARGO">>, <<"BATTERY=", "<", "1", "5", "%">>,
     <<"BATTERY=", "2", "0", "%">>, <<"BATTERY=", "x">>,
     <<"WDH=", "4", "2">>, <<"WDH=", "x">>}

\* fast-path callers open the link and the shuttle talks
NextEngine ==
    \/ \E i \in 1..LinkSubmits, type \in {"HOME", "MRCD"}, s \in Shuttles :
          ManagerSendCommand(i, type, s)
    \/ \E t \in Tasks : LockGranted(t)
    \/ \E t \in Tasks : DialOk(t)
    \/ \E t \in Tasks : StDrainOk(t)
    \/ \E t \in Tasks : DrainOk(t)
    \/ \E s \in Shuttles : HandleConnection(1, s)
    \/ \E m \in FeedLines : ReadLine(1, m, FALSE)

SpecEngine == Init /\ [][NextEngine]_vars

\* the commands a state may hold as current_command when a line arrives
CurrentCommands == {"NONE", "PALLET_IN"}

TableRows == 1..10

TablePattern(k, m) ==
    CASE k = 1 -> m # <<>> /\ m[Len(m)] = "_STARTED"
      [] k = 2 -> m # <<>> /\ m[Len(m)] = "_DONE"
      [] k = 3 -> m # <<>> /\ m[Len(m)] = "_ABORT"
      [] k = 4 -> m # <<>> /\ m[1] = "LOCATION="
      [] k = 5 -> m # <<>> /\ m[1] = "COUNT_"
                     /\ \E j \in 2..Len(m) : m[j] = "="
      [] k = 6 -> m # <<>> /\ m[1] = "STATUS="
      [] k = 7 -> m # <<>> /\ m[1] = "BATTERY="
      [] k = 8 -> m # <<>> /\ m[1] = "WDH="
      [] k = 9 -> m # <<>> /\ m[1] = "WLH="
      [] k = 10 -> m # <<>> /\ m[1] = "F_CODE="

\* the first row whose pattern the line fits, 0 when it fits none
TableRule(m) ==
    IF \E k \in TableRows : TablePattern(k, m)
    THEN CHOOSE k \in TableRows :
            TablePattern(k, m) /\ \A j \in 1..(k - 1) : ~TablePattern(j, m)
    ELSE 0

TableMap ==
    [FREE |-> "FREE", CARGO |-> "BUSY", BUSY |-> "BUSY",
     NOT_READY |-> "NOT_READY", MOVING |-> "MOVING", LOADING |-> "LOADING",
     UNLOADING |-> "UNLOADING", CHARGING |-> "CHARGING",
     LOW_BATTERY |-> "LOW_BATTERY"]

\* the status the table gives a STATUS= value that is written as in the map
TableStatus(x) ==
    IF Len(x) = 1 /\ x[1] \in DOMAIN TableMap THEN TableMap[x[1]]
    ELSE "UNKNOWN"

TableEffect(k, st, m) ==
    CASE k = 1 ->
           [st EXCEPT !.status =
               IF \E j \in 1..Len(m) : m[j] = "PALLET_IN" THEN "LOADING"
               ELSE IF \E j \in 1..Len(m) : m[j] = "PALLET_OUT"
                    THEN "UNLOADING"
               ELSE IF \E j \in 1..Len(m) : m[j] = "HOME" THEN "MOVING"
               ELSE "BUSY"]
      [] k = 2 -> [st EXCEPT !.status = "FREE", !.current_command = "NONE"]
      [] k = 3 -> [st EXCEPT !.status = "ERROR", !.error_code = m,
                             !.current_command = "NONE"]
      [] k = 4 ->
           LET blob == Tail(m)
               cells == {j \in 1..Len(blob) : blob[j] = "CELL:"}
               first == CHOOSE j \in cells : \A i \in cells : j <= i
               ends == {j \in (first + 1)..(Len(blob) + 1) :
                           j = Len(blob) + 1 \/ blob[j] = ","}
               end == CHOOSE j \in ends : \A i \in ends : j <= i
           IN [st EXCEPT !.location_data = <<blob>>, !.status = "FREE",
                         !.current_command = "NONE",
                         !.current_cell =
                            IF cells = {} THEN @
                            ELSE <<SubSeq(blob, first + 1, end - 1)>>]
      [] k = 5 -> [st EXCEPT !.pallet_count_data = <<m>>, !.status = "FREE",
                             !.current_command = "NONE"]
      [] k = 6 ->
           [st EXCEPT !.status = TableStatus(Tail(m)),
                      !.current_command =
                         IF TableStatus(Tail(m))
                               \in {"FREE", "NOT_READY", "UNKNOWN"}
                         THEN "NONE" ELSE @]
      [] k = 7 ->
           LET value == ParseFloat(LStrip(Remove(Tail(m), "%"), "<"))
           IN [st EXCEPT !.battery_level = <<Tail(m)>>,
                         !.status = IF value # <<>> /\ value[1] < 20
                                    THEN "LOW_BATTERY" ELSE @]
      [] k = 8 -> IF ParseInt(Tail(m)) = <<>> THEN st
                  ELSE [st EXCEPT !.wdh_hours = ParseInt(Tail(m))]
      [] k = 9 -> IF ParseInt(Tail(m)) = <<>> THEN st
                  ELSE [st EXCEPT !.wlh_hours = ParseInt(Tail(m))]
      [] k = 10 -> [st EXCEPT !.error_code = m, !.status = "ERROR",
                              !.current_command = "NONE"]
      [] OTHER -> st

\* C25 (first match wins): for every inbound line and every state, the state
\* after _process_message is the state the first row of the table that fits
\* the line gives, applied alone, in the order _STARTED, _DONE, _ABORT,
\* LOCATION=, COUNT_*=, STATUS=, BATTERY=, WDH=, WLH=, F_CODE=; a line that
\* fits no row changes no field of the state the engine keeps.
C25_FirstMatch ==
    \A s \in Shuttles : \A cc \in CurrentCommands : \A m \in EngineLines :
        LET st == [state[s] EXCEPT !.current_command = cc]
        IN ProcessMessage(st, m) = TableEffect(TableRule(m), st, m)

\* C25, its case: the engine handled a line that fits the rows _DONE and
\* STATUS= and the shuttle is FREE as _DONE has it, not BUSY.
C25_Witness ==
    \E s \in Shuttles :
        /\ lastIn.line = <<"STATUS=", "BUSY", "_DONE">>
        /\ lastIn.handler = "mgr"
        /\ state[s].status = "FREE"
        /\ state[s].last_command # "NONE"

\* the values tried after STATUS=: the keys of the map, other status names,
\* other words, keys in lower case, no value, a key with a tail
StatusPayloads ==
    {<<w>> : w \in (DOMAIN TableMap) \cup
                   {"ERROR", "AWAITING_MRCD", "UNKNOWN", "xyz", "free",
                    "Free", "busy", "cargo", "not_ready"}}
        \cup {<<>>, <<"FREE", "x">>}

\* what a STATUS= line has to leave: the status new and the current command
\* cleared when new is FREE, NOT_READY or UNKNOWN, nothing else touched
StatusLineSets(st, x, new) ==
    ProcessMessage(st, <<"STATUS=">> \o x) =
        [st EXCEPT !.status = new,
                   !.current_command =
                      IF new \in {"FREE", "NOT_READY", "UNKNOWN"}
                      THEN "NONE" ELSE @]

\* C26 as stated (status map): STATUS=<val> sets the status the fixed map
\* gives val, UNKNOWN for any val that is not a key of the map, and clears
\* current_command exactly when the new status is FREE, NOT_READY or
\* UNKNOWN.
C26_StatusMapVerbatim ==
    \A s \in Shuttles : \A cc \in CurrentCommands : \A x \in StatusPayloads :
        StatusLineSets([state[s] EXCEPT !.current_command = cc], x,
                       TableStatus(x))

\* C26 as amended: the same with val put in upper case before it is looked
\* up, so that free, Free and cargo count as FREE and CARGO.
C26_StatusMap ==
    \A s \in Shuttles : \A cc \in CurrentCommands : \A x \in StatusPayloads :
        StatusLineSets([state[s] EXCEPT !.current_command = cc], x,
                       IF Len(x) = 1 THEN TableStatus(<<Upper(x[1])>>)
                       ELSE "UNKNOWN")

\* C26, its cases: the engine handled STATUS=free and the shuttle is FREE;
\* it handled STATUS=CARGO and the shuttle is BUSY.
C26_Witness ==
    \E s \in Shuttles :
        /\ lastIn.handler = "mgr"
        /\ \/ lastIn.line = <<"STATUS=", "free">> /\ state[s].status = "FREE"
           \/ lastIn.line = <<"STATUS=", "CARGO">>
                /\ state[s].status = "BUSY"
        /\ state[s].battery_level # <<>>

\* the payloads tried after BATTERY=, WDH= and WLH=: every string of up to
\* MaxPayload of these characters
PayloadChars == {"0", "1", "2", "9", "%", "<", ".", "x"}
NumericPayloads ==
    UNION {[1..n -> PayloadChars] : n \in 0..MaxPayload}

\* the value float() finds in a battery payload, <<>> when it finds none
BatteryValue(x) == ParseFloat(LStrip(Remove(x, "%"), "<"))

\* C27 (parse errors): a BATTERY=, WDH= or WLH= line whose payload is not
\* numeric leaves the stored battery_level, wdh_hours or wlh_hours and the
\* status as they were.
C27_ParseErrorsPreserve ==
    \A s \in Shuttles : \A x \in NumericPayloads :
        LET st == state[s]
            b == ProcessMessage(st, <<"BATTERY=">> \o x)
            d == ProcessMessage(st, <<"WDH=">> \o x)
            l == ProcessMessage(st, <<"WLH=">> \o x)
        IN /\ BatteryValue(x) = <<>>
                => b.battery_level = st.battery_level /\ b.status = st.status
           /\ ParseInt(x) = <<>>
                => /\ d.wdh_hours = st.wdh_hours /\ d.status = st.status
                   /\ l.wlh_hours = st.wlh_hours /\ l.status = st.status

\* C28 (battery threshold): BATTERY=<s> sets battery_level to s as it came
\* and sets the status to LOW_BATTERY exactly when s, with its % characters
\* and leading < stripped, is a number below 20; a number of 20 or more (and
\* a payload that is no number) leaves the status as it was, and no other
\* field changes.
C28_BatteryThreshold ==
    \A s \in Shuttles : \A x \in NumericPayloads :
        ProcessMessage(state[s], <<"BATTERY=">> \o x) =
            [state[s] EXCEPT
                !.battery_level = <<x>>,
                !.status = IF BatteryValue(x) # <<>> /\ BatteryValue(x)[1] < 20
                           THEN "LOW_BATTERY" ELSE @]

\* C28, its case: the engine handled BATTERY=<15% on a shuttle that had been
\* sent a command, which is LOW_BATTERY now.
C28_Witness ==
    \E s \in Shuttles :
        /\ lastIn.line = <<"BATTERY=", "<", "1", "5", "%">>
        /\ lastIn.handler = "mgr"
        /\ state[s].battery_level = <<(<<"<", "1", "5", "%">>)>>
        /\ state[s].status = "LOW_BATTERY"
        /\ state[s].last_command # "NONE"

(***************************************************************************)
(* The loading cycle: MRCDs open the link and the shuttle reports FREE;     *)
(* PALLET_IN is then submitted, and once it is written the shuttle answers  *)
(* PALLET_IN_STARTED and, after that, PALLET_IN_DONE.                       *)
(***************************************************************************)
Started == <<"PALLET_IN", "_STARTED">>
Done == <<"PALLET_IN", "_DONE">>
CycleLines == {Started, Done}

\* the submission of PALLET_IN was dispatched and has returned
Dispatched(i) ==
    /\ pc[i] = "done"
    /\ registry[CommandId(tcmd[i])].status = "completed"

NextCycle ==
    \/ \E i \in 1..2, s \in Shuttles : ManagerSendCommand(i, "MRCD", s)
    \/ \E s \in Shuttles :
          state[s].status = "FREE" /\ ManagerSendCommand(3, "PALLET_IN", s)
    \/ \E t \in Tasks : LockGranted(t)
    \/ \E wk \in Workers, s \in Shuttles : CommandProcessorWorker(wk, s)
    \/ \E t \in Tasks : DialOk(t)
    \/ \E t \in Tasks : StDrainOk(t)
    \/ \E t \in Tasks : DrainOk(t)
    \/ \E s \in Shuttles : HandleConnection(1, s)
    \/ pc[3] = "idle" /\ ReadLine(1, <<"STATUS=", "FREE">>, FALSE)
    \/ Dispatched(3) /\ lastIn.line \notin CycleLines
          /\ ReadLine(1, Started, FALSE)
    \/ lastIn.line = Started /\ ReadLine(1, Done, FALSE)
    \/ Tick

\* The workers, the lock and the transport run whenever they can, and the
\* shuttle answers.
CycleFairness ==
    /\ \A t \in Tasks : WF_vars(LockGranted(t))
    /\ \A wk \in Workers, s \in Shuttles :
          WF_vars(CommandProcessorWorker(wk, s))
    /\ \A t \in Tasks : WF_vars(DialOk(t) \/ StDrainOk(t) \/ DrainOk(t))
    /\ WF_vars(ReadLine(1, Started, FALSE) \/ ReadLine(1, Done, FALSE))

SpecCycle == Init /\ [][NextCycle]_vars /\ CycleFairness

\* C22 (loading cycle): PALLET_IN with params A1 submitted to the FREE
\* shuttle is written as PALLET_IN-A1 and the status is BUSY when the
\* dispatch has returned; PALLET_IN_STARTED then makes the status LOADING and
\* PALLET_IN_DONE makes it FREE with no current command, each of the two
\* lines is answered by one MRCD, and the submission leads to that end.
C22_CycleSteps ==
    \A s \in Shuttles :
        /\ \A j \in 1..Len(wire[s]) :
              wire[s][j].sub = 3
                  => wire[s][j].line = <<"PALLET_IN", "-", "A1", "\n">>
        /\ Dispatched(3) /\ lastIn.line \notin CycleLines
              => /\ state[s].status = "BUSY"
                 /\ \E j \in 1..Len(wire[s]) : wire[s][j].sub = 3
        /\ lastIn.line = Started
              => /\ state[s].status = "LOADING"
                 /\ lastIn.handler = "mgr" /\ lastIn.acks = 1
        /\ lastIn.line = Done
              => /\ state[s].status = "FREE"
                 /\ state[s].current_command = "NONE"
                 /\ lastIn.handler = "mgr" /\ lastIn.acks = 1

NextWms ==
    \/ \E i \in 1..RaceSubmits, type \in FastTypes, s \in Shuttles :
          ManagerSendCommand(i, type, s)
    \/ \E t \in Tasks : LockGranted(t)
    \/ \E wk \in Workers, s \in Shuttles : CommandProcessorWorker(wk, s)
    \/ \E t \in Tasks : DialOk(t)
    \/ \E t \in Tasks : StDrainOk(t)
    \/ \E t \in Tasks : DrainOk(t)
    \/ \E s \in Shuttles : HandleConnection(1, s)
    \/ \E m \in RaceLines : ReadLine(1, m, FALSE)
    \/ \E s \in Shuttles : UpdateCommandStatuses(s, TRUE)

SpecWms == Init /\ [][NextWms]_vars

\* the WMS context of a state
WmsContext(st) == <<st.external_id, st.document_type>>

\* C37 (WMS context kept until reported): the external_id and document_type
\* a dispatch left on a shuttle's state change only when the WMS adapter
\* reports them (and clears them) or when a later command that carries a
\* context of its own is dispatched.
C37_ContextKept ==
    [][\A s \in Shuttles :
          (state[s].external_id # "" /\ state[s].document_type # ""
              /\ WmsContext(state'[s]) # WmsContext(state[s]))
          => \/ pc' = pc /\ WmsContext(state'[s]) = <<"", "">>
             \/ \E t \in Submitters \cup Workers :
                   DispatchReturns(t) /\ ExternalId(tcmd[t].type) # ""]_vars

(***************************************************************************)
(* Progress of a queued command from startup: callers submit PALLET_IN     *)
(* (queued) or MRCD (fast path), the shuttle dials in and reports          *)
(* STATUS=FREE again and again.                                            *)
(***************************************************************************)
StatusFree == <<"STATUS=", "FREE">>

ProgressTypes == {"PALLET_IN", "MRCD"}

NextProgress ==
    \/ \E i \in 1..RaceSubmits, type \in ProgressTypes, s \in Shuttles :
          ManagerSendCommand(i, type, s)
    \/ \E t \in Tasks : LockGranted(t)
    \/ \E wk \in Workers, s \in Shuttles : CommandProcessorWorker(wk, s)
    \/ \E t \in Tasks : DialOk(t)
    \/ \E t \in Tasks : StDrainOk(t)
    \/ \E t \in Tasks : DrainOk(t)
    \/ \E s \in Shuttles : HandleConnection(1, s)
    \/ ReadLine(1, StatusFree, FALSE)

\* The workers, the lock and the transport run whenever they can, the
\* shuttle dials in and keeps reporting STATUS=FREE.  Nothing makes a caller
\* submit.
ProgressFairness ==
    /\ \A t \in Tasks : WF_vars(LockGranted(t))
    /\ \A wk \in Workers, s \in Shuttles :
          WF_vars(CommandProcessorWorker(wk, s))
    /\ \A t \in Tasks : WF_vars(DialOk(t) \/ StDrainOk(t) \/ DrainOk(t))
    /\ \A s \in Shuttles : WF_vars(HandleConnection(1, s))
    /\ WF_vars(ReadLine(1, StatusFree, FALSE))

SpecProgress == Init /\ [][NextProgress]_vars /\ ProgressFairness

\* C32 (progress from startup): a command that is queued for a shuttle which
\* keeps reporting STATUS=FREE is eventually taken from the queue by a
\* worker, whether or not a fast-path command is ever submitted.
C32_QueuedIsDispatched ==
    \A s \in Shuttles : (queue[s] # <<>>) ~> (queue[s] = <<>>)

(***************************************************************************)
(* shuttle_state.py: a ShuttleState saved as a dict and loaded again.  A   *)
(* ShuttleCommand has no __eq__, so two commands are equal only when they  *)
(* are the same object: obj tells the object the client stored ("sent")    *)
(* from the one from_dict builds ("loaded").                               *)
(***************************************************************************)
StatusValues ==
    {"FREE", "BUSY", "ERROR", "NOT_READY", "AWAITING_MRCD", "UNKNOWN",
     "MOVING", "LOADING", "UNLOADING", "CHARGING", "LOW_BATTERY"}

NoCommandObject == [type |-> "NONE", priority |-> 0, obj |-> "none"]

\* the ShuttleState instance the client holds
StateObject(st) ==
    [status |-> st.status, current_command |-> st.current_command,
     error_code |-> st.error_code, current_cell |-> st.current_cell,
     external_id |-> st.external_id, document_type |-> st.document_type,
     cell_id |-> st.cell_id, stock_name |-> st.stock_name,
     battery_level |-> st.battery_level, location_data |-> st.location_data,
     pallet_count_data |-> st.pallet_count_data, wdh_hours |-> st.wdh_hours,
     wlh_hours |-> st.wlh_hours,
     last_command |->
         IF st.last_command = "NONE" THEN NoCommandObject
         ELSE [type |-> st.last_command,
               priority |-> CommandPriority(st.last_command),
               obj |-> "sent"]]

\* ShuttleCommand.to_dict
CommandToDict(type) ==
    [command_type |-> type, priority |-> CommandPriority(type)]

\* ShuttleCommand.from_dict: a new object
CommandFromDict(d) ==
    [type |-> d.command_type, priority |-> d.priority, obj |-> "loaded"]

\* ShuttleState.to_dict: the keys it writes; last_command only when set
ToDict(st) ==
    [status |-> st.status, current_command |-> st.current_command,
     error_code |-> st.error_code,
     external_id |-> st.external_id, document_type |-> st.document_type,
     cell_id |-> st.cell_id, stock_name |-> st.stock_name,
     battery_level |-> st.battery_level, location_data |-> st.location_data,
     pallet_count_data |-> st.pallet_count_data, wdh_hours |-> st.wdh_hours,
     wlh_hours |-> st.wlh_hours,
     last_command |-> IF st.last_command = "NONE" THEN <<>>
                      ELSE <<CommandToDict(st.last_command)>>]

\* ShuttleState.from_dict: cls(**data_copy) gives the fields that are not in
\* the dict their defaults
FromDict(d) ==
    [status |-> IF d.status \in StatusValues THEN d.status ELSE "UNKNOWN",
     current_command |-> d.current_command,
     error_code |-> d.error_code,
     current_cell |-> InitialState.current_cell,
     external_id |-> d.external_id, document_type |-> d.document_type,
     cell_id |-> d.cell_id, stock_name |-> d.stock_name,
     battery_level |-> d.battery_level, location_data |-> d.location_data,
     pallet_count_data |-> d.pallet_count_data, wdh_hours |-> d.wdh_hours,
     wlh_hours |-> d.wlh_hours,
     last_command |-> IF d.last_command = <<>> THEN NoCommandObject
                      ELSE CommandFromDict(d.last_command[1])]

\* C19 (state round-trip): for every reachable shuttle state,
\* from_dict(to_dict(state)) equals the state in every field, current_cell
\* and last_command included.
C19_RoundTrip ==
    \A s \in Shuttles : FromDict(ToDict(state[s])) = StateObject(state[s])

(***************************************************************************)
(* ShuttleManager.get_free_shuttle                                         *)
(***************************************************************************)
\* config.stock_to_shuttle.get(stock_name, []); "s0" is mapped to the stock
\* but is not a configured shuttle
StockToShuttle(stock) ==
    CASE stock = "A" -> <<"s0", "s1">> [] OTHER -> <<>>

Stocks == {"A", "B"}

\* the attributes of the class ShuttleCommand (commands.py:54-138)
ShuttleCommandAttributes == {"to_string", "to_dict", "from_dict"}

\* shuttle_manager.py:266-270
HighPriorityNames == {"HOME", "STATUS", "MRCD"}

\* shuttle_manager.py:273-287: the scan of the shuttles of the stock
RECURSIVE ScanShuttles(_, _, _)
ScanShuttles(st, ids, high_priority) ==
    IF ids = <<>> THEN "none"
    ELSE IF Head(ids) \notin Shuttles
         THEN ScanShuttles(st, Tail(ids), high_priority)
    ELSE IF high_priority THEN Head(ids)
    ELSE IF st[Head(ids)].status = "FREE" THEN Head(ids)
    ELSE ScanShuttles(st, Tail(ids), high_priority)

\* shuttle_manager.py:249-254: the shuttle whose state bears external_id
FindByExternalId(st, external_id) ==
    IF \E s \in Shuttles : st[s].external_id = external_id
    THEN CHOOSE s \in Shuttles : st[s].external_id = external_id
    ELSE "none"

\* get_free_shuttle(stock_name, command=command, external_id=external_id);
\* "" is an external_id that was not given.  Line 248 evaluates
\* ShuttleCommand.HOME.value before anything else.
GetFreeShuttle(st, stock, command, external_id) ==
    IF "HOME" \notin ShuttleCommandAttributes THEN "AttributeError"
    ELSE IF command = "HOME" /\ external_id # ""
         THEN FindByExternalId(st, external_id)
    ELSE ScanShuttles(st, StockToShuttle(stock), command \in HighPriorityNames)

\* the external IDs the WMS asks about
ExternalIds == {"ext_in", "ext_home", "ext_lost"}

\* C21 (HOME by external ID): for command HOME with an external_id,
\* get_free_shuttle returns the shuttle whose state bears that external_id
\* and none when no shuttle bears it, whatever the stock and the statuses.
C21_HomeByExternalId ==
    \A stock \in Stocks : \A ext \in ExternalIds :
        GetFreeShuttle(state, stock, "HOME", ext) =
            IF \E s \in Shuttles : state[s].external_id = ext
            THEN CHOOSE s \in Shuttles : state[s].external_id = ext
            ELSE "none"

\* C20 (free shuttle): for a command that is not high-priority,
\* get_free_shuttle returns the first shuttle in the order of
\* stock_to_shuttle[stock] that is configured and FREE, and none when there
\* is no such shuttle.
C20_FirstFree ==
    \A stock \in Stocks : \A command \in {"PALLET_IN", "PALLET_OUT"} :
        LET ids == StockToShuttle(stock)
            free == {j \in 1..Len(ids) :
                        ids[j] \in Shuttles /\ state[ids[j]].status = "FREE"}
        IN GetFreeShuttle(state, stock, command, "") =
              IF free = {} THEN "none"
              ELSE ids[CHOOSE j \in free : \A k \in free : j <= k]

(***************************************************************************)
(* HOME against the queue: callers, workers and cancellation on a          *)
(* transport that may fail.                                                *)
(***************************************************************************)
HomeTypes == {"HOME", "PALLET_IN"}

NextHome ==
    \/ \E i \in 1..HomeSubmits, type \in HomeTypes, s \in Shuttles :
          ManagerSendCommand(i, type, s)
    \/ \E t \in Tasks : LockGranted(t)
    \/ \E wk \in Workers, s \in Shuttles : CommandProcessorWorker(wk, s)
    \/ \E id \in CommandIds : CancelCommand(id)
    \/ \E t \in Tasks : DialOk(t)
    \/ \E t \in Tasks, exc \in DialErrors :
          nfaults < HomeFaults /\ DialFail(t, exc)
    \/ \E t \in Tasks : StDrainOk(t)
    \/ \E t \in Tasks, code \in DrainErrors :
          nfaults < HomeFaults /\ StDrainFail(t, code)
    \/ \E t \in Tasks : DrainOk(t)
    \/ \E t \in Tasks, code \in DrainErrors :
          nfaults < HomeFaults /\ DrainFail(t, code)
    \/ \E s \in Shuttles : HandleConnection(1, s)
    \/ \E m \in RaceLines : ReadLine(1, m, FALSE)

SpecHome == Init /\ [][NextHome]_vars

\* the place of caller i's command among the commands written to s, 0 when
\* it was not written
Pos(s, i) ==
    IF \E j \in 1..Len(wire[s]) : wire[s][j].sub = i
    THEN CHOOSE j \in 1..Len(wire[s]) : wire[s][j].sub = i
    ELSE 0

\* C5 as the specification words it: a command that was queued when HOME
\* was submitted to the BUSY shuttle is written only after HOME was.
C5_HomeWrittenFirst ==
    \A i \in Submitters : \A q \in snap[i] :
        LET s == tcmd[i].shuttle_id
        IN Pos(s, q) > 0 => (Pos(s, i) > 0 /\ Pos(s, i) < Pos(s, q))

\* C5 (fast-path preemption): when HOME is submitted to a BUSY shuttle with
\* a non-empty queue, none of the commands queued at that moment is written
\* before HOME's call has returned, and a HOME that was written was written
\* before each of them.
C5_HomePreempts ==
    \A i \in Submitters : \A q \in snap[i] :
        LET s == tcmd[i].shuttle_id
        IN Pos(s, q) > 0 =>
              /\ pc[i] = "done"
              /\ Pos(s, i) > 0 => Pos(s, i) < Pos(s, q)


\* C5, its case: HOME was submitted to a BUSY shuttle with a queued command,
\* both were written, HOME first.
C5_Witness ==
    \E i \in Submitters : \E q \in snap[i] :
        LET s == tcmd[i].shuttle_id
        IN Pos(s, i) > 0 /\ Pos(s, q) > Pos(s, i)

(***************************************************************************)
(* A batch of queued commands and the order the workers take them in.      *)
(***************************************************************************)
NextBatch ==
    \/ \E i \in Submitters, type \in RaceTypes, s \in Shuttles :
          ManagerSendCommand(i, type, s)
    \/ \E i \in Submitters : PutWoken(i)
    \/ \E wk \in Workers, s \in Shuttles : CommandProcessorWorker(wk, s)
    \/ \E id \in CommandIds : CancelCommand(id)
    \/ Tick
    \/ \E t \in Tasks : LockGranted(t)
    \/ \E t \in Tasks : DialOk(t)
    \/ \E t \in Tasks : StDrainOk(t)
    \/ \E t \in Tasks : DrainOk(t)
    \/ \E s \in Shuttles : HandleConnection(1, s)
    \/ \E m \in RaceLines : ReadLine(1, m, FALSE)

SpecBatch == InitWith(BatchQueueMax) /\ [][NextBatch]_vars

\* the callers whose commands are in the queue of s, in the order the queue
\* gives them out
PopOrder(q) == [j \in 1..Len(q) |-> Drain(q)[j].sub]

\* the step in which the cancel_command that found the command of caller i
\* queued returns True
CancelReturns(i) == cancelAt[i] = -1 /\ cancelAt'[i] # -1

\* C29 (frame of a cancel): a successful cancel_command(id) takes only the
\* target out of the shuttle's queue, the other entries stay and leave the
\* queue in the order they would have left it in before; the target's record
\* becomes cancelled and no other record of the registry changes.
C29_CancelRemovesOnlyTarget ==
    [][\A i \in Submitters :
          CancelReturns(i) =>
             LET s == tcmd[i].shuttle_id
                 id == CommandId(tcmd[i])
             IN /\ PopOrder(queue'[s]) =
                      SelectSeq(PopOrder(queue[s]), LAMBDA j : j # i)
                /\ registry'[id].status = "cancelled"
                /\ \A other \in CommandIds \ {id} :
                      registry'[other] = registry[other]]_vars

\* the same for a cancel that finds no two commands of one ID in the queue
C29_CancelAmongDistinct ==
    [][\A i \in Submitters :
          (/\ CancelReturns(i)
           /\ \A j, k \in 1..Len(queue[tcmd[i].shuttle_id]) :
                 j # k => CommandId(queue[tcmd[i].shuttle_id][j])
                             # CommandId(queue[tcmd[i].shuttle_id][k])
           /\ \E j \in 1..Len(queue[tcmd[i].shuttle_id]) :
                 queue[tcmd[i].shuttle_id][j].sub = i) =>
             LET s == tcmd[i].shuttle_id
                 id == CommandId(tcmd[i])
             IN /\ PopOrder(queue'[s]) =
                      SelectSeq(PopOrder(queue[s]), LAMBDA j : j # i)
                /\ registry'[id].status = "cancelled"
                /\ \A other \in CommandIds \ {id} :
                      registry'[other] = registry[other]]_vars

\* (priority, submission index) of caller i's command comes before that of
\* caller j's
Before(i, j) ==
    \/ tcmd[i].priority < tcmd[j].priority
    \/ tcmd[i].priority = tcmd[j].priority /\ i < j

\* C4 (priority ordering): as long as every queued command of a shuttle was
\* enqueued before the workers took the first one, the workers dispatch in
\* the order of (priority, submission index): what a worker wrote comes
\* before what it wrote later and before what is still queued.
C4_PriorityOrder ==
    \A s \in Shuttles :
        batch[s] # "mixed" =>
            \A k \in 1..Len(wire[s]) :
                wire[s][k].by \in Workers =>
                    /\ \A j \in 1..(k - 1) :
                          wire[s][j].by \in Workers =>
                              Before(wire[s][j].sub, wire[s][k].sub)
                    /\ \A j \in 1..Len(queue[s]) :
                          Before(wire[s][k].sub, queue[s][j].sub)

\* C18 (one record per submission): two distinct submissions never carry
\* the same command ID, and the registry's record under a returned
\* submission's ID is the record of that submission.
C18_DistinctIds ==
    \A i \in Submitters :
        tcmd[i] # NoCmd =>
            /\ \A j \in Submitters \ {i} :
                  tcmd[j] # NoCmd => CommandId(tcmd[j]) # CommandId(tcmd[i])
            /\ pc[i] = "done" => registry[CommandId(tcmd[i])].command = tcmd[i]


(***************************************************************************)
(* Shutdown: callers submit on the fast path and on the queue, the workers *)
(* dispatch, and ShuttleManager.stop is called at any moment.  The monitor *)
(* was stopped before (main.py), so the manager's clients are the only     *)
(* ones on the link.                                                       *)
(***************************************************************************)
NextStop ==
    \/ \E i \in 1..StopSubmits, type \in FastTypes, s \in Shuttles :
          ManagerSendCommand(i, type, s)
    \/ \E t \in Tasks : LockGranted(t)
    \/ \E wk \in Workers, s \in Shuttles : CommandProcessorWorker(wk, s)
    \/ \E t \in Tasks : DialOk(t)
    \/ \E t \in Tasks : StDrainOk(t)
    \/ \E t \in Tasks : DrainOk(t)
    \/ \E t \in Tasks : ~Alive(t) /\ StDrainFail(t, "SEND_ERROR")
    \/ \E t \in Tasks : ~Alive(t) /\ DrainFail(t, "SEND_ERROR")
    \/ \E s \in Shuttles : HandleConnection(1, s)
    \/ \E m \in RaceLines : ReadLine(1, m, FALSE)
    \/ Tick
    \/ Stop
    \/ \E s \in Shuttles : StopGathered(s)

SpecStop == Init /\ [][NextStop]_vars

\* The workers, the lock and the transport run whenever they can and a stop
\* that has begun goes on; nothing makes a caller submit or call stop.
StopFairness ==
    /\ \A t \in Tasks : WF_vars(LockGranted(t))
    /\ \A wk \in Workers, s \in Shuttles :
          WF_vars(CommandProcessorWorker(wk, s))
    /\ \A t \in Tasks : WF_vars(DialOk(t) \/ StDrainOk(t) \/ DrainOk(t))
    /\ \A t \in Tasks :
          WF_vars(~Alive(t) /\ (StDrainFail(t, "SEND_ERROR")
                                   \/ DrainFail(t, "SEND_ERROR")))
    /\ \A s \in Shuttles : WF_vars(StopGathered(s))

\* the shutdown with two submissions
NextStopFair ==
    \/ \E i \in 1..LinkSubmits, type \in FastTypes, s \in Shuttles :
          ManagerSendCommand(i, type, s)
    \/ \E t \in Tasks : LockGranted(t)
    \/ \E wk \in Workers, s \in Shuttles : CommandProcessorWorker(wk, s)
    \/ \E t \in Tasks : DialOk(t)
    \/ \E t \in Tasks : StDrainOk(t)
    \/ \E t \in Tasks : DrainOk(t)
    \/ \E t \in Tasks : ~Alive(t) /\ StDrainFail(t, "SEND_ERROR")
    \/ \E t \in Tasks : ~Alive(t) /\ DrainFail(t, "SEND_ERROR")
    \/ \E s \in Shuttles : HandleConnection(1, s)
    \/ ReadLine(1, StatusFree, FALSE)
    \/ Stop
    \/ \E s \in Shuttles : StopGathered(s)

SpecStopFair == Init /\ [][NextStopFair]_vars /\ StopFairness

\* C35 (no command lost): a record a worker marked processing eventually
\* becomes completed or failed, also when stop cancels the worker.
Processing == {id \in CommandIds : registry[id].status = "processing"}

C35_ProcessingEnds == (Processing # {}) ~> (Processing = {})

\* the same as long as stop is not called
C35_ProcessingEndsUnlessStopped ==
    (Processing # {}) ~> (Processing = {} \/ stopPhase # "idle")

\* the positions at which a task holds the lock of its shuttle
HoldsLock(t) ==
    pc[t] \in {"cm_wait", "dialing", "st_drain", "drain", "close_st", "close_w"}

\* the lines the workers wrote to shuttle s
WorkerLines(w, s) == SelectSeq(w[s], LAMBDA e : e.by \in Workers)

\* stop returns in this step
StopReturns == stopPhase # "done" /\ stopPhase' = "done"

\* C30 (shutdown) as stated: stop ends every worker at once, stop returns
\* only with every worker ended, from then on no worker pops or writes a
\* command, and when stop returns the lock of every shuttle is unlocked.
C30_AllLocksReleased ==
    [][StopReturns => \A s \in Shuttles : ~lock'[s].locked]_vars

\* C30 (shutdown) as the code has it: the step in which stop starts leaves
\* every worker ended, holding no lock and waiting for none; stop returns
\* only after that; once stop has started no worker pops a command or
\* writes a line, and the command a worker was processing is never marked
\* completed or failed; and a shuttle lock that is locked when stop
\* returns is held by a caller of send_command, which stop neither cancels
\* nor awaits.
C30_StopEndsWorkers ==
    [][/\ (stopPhase = "idle" /\ stopPhase' # "idle") =>
             \A wk \in Workers :
                 /\ pc'[wk] = "idle" /\ tcmd'[wk] = NoCmd
                 /\ \A k \in 1..Len(cmlock'.waiters) : cmlock'.waiters[k] # wk
                 /\ \A s \in Shuttles :
                       /\ \A k \in 1..Len(lock'[s].waiters) :
                             lock'[s].waiters[k] # wk
                       /\ lock'[s].locked =>
                             \E i \in Submitters :
                                 HoldsLock(i) /\ tcmd[i].shuttle_id = s
       /\ stopPhase # "idle" =>
             /\ \A wk \in Workers : pc'[wk] = "idle"
             /\ \A s \in Shuttles :
                   /\ WorkerLines(wire', s) = WorkerLines(wire, s)
                   /\ Len(queue'[s]) >= Len(queue[s])
             /\ \A id \in CommandIds :
                   registry[id].status = "processing" =>
                       registry'[id].status \notin {"completed", "failed"}
       /\ StopReturns =>
             \A s \in Shuttles :
                 lock'[s].locked =>
                     \E i \in Submitters :
                         /\ pc'[i] \in {"cm_wait", "dialing", "st_drain",
                                        "drain", "close_st", "close_w"}
                         /\ tcmd'[i].shuttle_id = s]_vars

\* stop has returned after it cancelled a worker in the middle of a
\* dispatch, with a command still queued
C30_Witness ==
    /\ stopPhase = "done"
    /\ \E id \in CommandIds : registry[id].status = "processing"
    /\ \E s \in Shuttles : queue[s] # <<>> /\ ~lock[s].locked


(***************************************************************************)
(* The circuit breaker under two concurrent callers.                       *)
(***************************************************************************)
\* CircuitBreaker.execute is called by c
Execute(c) ==
    /\ cb.calls[c] # "running"
    /\ cb.nexec < MaxExecutes
    /\ SetW([W EXCEPT !.cb = Enter(@, c)])

\* the wrapped function of c's call returns
FuncReturns(c) ==
    /\ cb.calls[c] = "running"
    /\ SetW([W EXCEPT !.cb = OnSuccess(@, c)])

\* the wrapped function of c's call raises
FuncRaises(c) ==
    /\ cb.calls[c] = "running"
    /\ SetW([W EXCEPT !.cb = OnFailure(@, c)])

\* time.time() moves on
BreakerTick ==
    /\ cb.clock < BreakerClock
    /\ SetW([W EXCEPT !.cb.clock = @ + 1])

NextBreaker ==
    \/ \E c \in Callers : Execute(c)
    \/ \E c \in Callers : FuncReturns(c)
    \/ \E c \in Callers : FuncRaises(c)
    \/ BreakerTick

SpecBreaker == Init /\ [][NextBreaker]_vars

\* execute is entered in this step, the function returns, the function raises
Entered == cb'.nexec = cb.nexec + 1
Succeeds(c) == cb.calls[c] = "running" /\ cb'.calls[c] = "ok"
Fails(c) == cb.calls[c] = "running" /\ cb'.calls[c] = "error"

\* reset_timeout has not elapsed since the last failure
TimedOut(b) == b.clock - b.last_failure_time >= reset_timeout

\* C39 (rejection): a closed breaker has fewer than max_failures failures; a
\* failure on a closed breaker opens it exactly when the count reaches
\* max_failures; an execute on an open breaker whose reset_timeout has not
\* elapsed ends with CircuitOpenError, calls no function and leaves state,
\* failure count and last failure time as they were.
C39_OpensAndRejects ==
    /\ [](cb.state = "CLOSED" => cb.failures < max_failures)
    /\ [][/\ \A c \in Callers :
                Fails(c) /\ cb.state = "CLOSED" =>
                    /\ cb'.failures = cb.failures + 1
                    /\ cb'.state = IF cb'.failures >= max_failures
                                   THEN "OPEN" ELSE "CLOSED"
          /\ (cb.state = "CLOSED" /\ cb'.state = "OPEN") =>
                \E c \in Callers : Fails(c)
          /\ (Entered /\ cb.state = "OPEN" /\ ~TimedOut(cb)) =>
                /\ cb'.invoked = cb.invoked
                /\ cb'.state = "OPEN"
                /\ cb'.failures = cb.failures
                /\ cb'.last_failure_time = cb.last_failure_time
                /\ \E c \in Callers :
                      /\ cb.calls[c] # "running" /\ cb'.calls[c] = "open"
                      /\ \A d \in Callers \ {c} : cb'.calls[d] = cb.calls[d]]_vars

\* the breaker is open after max_failures failures and has just rejected a
\* call
C39_Witness ==
    /\ cb.state = "OPEN"
    /\ cb.failures = max_failures
    /\ cb.invoked = max_failures
    /\ \E c \in Callers : cb.calls[c] = "open"

\* C40 (recovery): an execute on an open breaker whose reset_timeout has
\* elapsed makes it HALF_OPEN and calls the function; a function that
\* returns while the breaker is HALF_OPEN makes it CLOSED with no failures,
\* one that raises while it is HALF_OPEN makes it OPEN; the state is always
\* CLOSED, OPEN or HALF_OPEN.
C40_Recovers ==
    /\ [](cb.state \in {"CLOSED", "OPEN", "HALF_OPEN"})
    /\ [][/\ (Entered /\ cb.state = "OPEN" /\ TimedOut(cb)) =>
                /\ cb'.state = "HALF_OPEN"
                /\ cb'.invoked = cb.invoked + 1
                /\ \E c \in Callers :
                      cb.calls[c] # "running" /\ cb'.calls[c] = "running"
          /\ \A c \in Callers :
                /\ Succeeds(c) /\ cb.state = "HALF_OPEN" =>
                      cb'.state = "CLOSED" /\ cb'.failures = 0
                /\ Fails(c) /\ cb.state = "HALF_OPEN" => cb'.state = "OPEN"]_vars

\* the breaker was open, was tried after reset_timeout and is closed again
\* with its failure count back at 0
C40_Witness ==
    /\ cb.state = "CLOSED"
    /\ cb.failures = 0
    /\ cb.last_failure_time > 0
    /\ cb.invoked = max_failures + 1
    /\ \E c \in Callers : cb.calls[c] = "ok"

=============================================================================
